---- MODULE Spec2Model ----
(***************************************************************************)
(* Model of the provider-agnostic chat-completion client of cookbook:      *)
(*   - HttpClient.post    (shared/http_client.py): retry / backoff loop    *)
(*   - the error taxonomy (shared/errors.py)                               *)
(*   - the provider adapters (shared/llm/adapters.py)                      *)
(*   - the LLM facade     (shared/llm/client.py)                           *)
(*                                                                         *)
(* Two specifications share the variables:                                 *)
(*   SpecPost : a bare HttpClient whose post is called directly            *)
(*   Spec     : an LLM facade whose operations go through an adapter and   *)
(*              the facade's own HttpClient                                *)
(***************************************************************************)
EXTENDS Integers, Sequences, FiniteSets, TLC

VARIABLES
    cfg,          \* LLM.cfg, the LLMConfig of the facade (NoConfig for a bare HttpClient)
    http,         \* HttpClient fields: [timeout_s, max_retries]
    pc,           \* "idle" | "post" | "sleep" | "post_done" | "done"
    op,           \* the operation in progress: [name, text, messages, max_tags]
    request,      \* arguments of the current HttpClient.post call: [url, headers, json]
    attempt,      \* HttpClient.post local: loop variable `attempt`
    delay,        \* HttpClient.post local: `delay`
    last_err,     \* HttpClient.post local: `last_err`
    nposts,       \* number of session.post calls made by the current post
    sleeps,       \* durations passed to time.sleep by the current post, in order
    seen,         \* kinds of the responses the current post received before the last one
    last,         \* the response the latest attempt received
    post_out,     \* outcome of the current HttpClient.post call
    invoked,      \* adapters whose chat was invoked by the current operation, in order
    npostcalls,   \* number of transport.post calls made by the current operation
    out,          \* outcome of the current facade operation, or of a failed LLM.from_env
    env           \* the process environment: variable name -> JNull (unset) or a string

vars == <<cfg, http, pc, op, request, attempt, delay, last_err, nposts, sleeps,
          seen, last, post_out, invoked, npostcalls, out, env>>

postLocals == <<attempt, delay, last_err, nposts, sleeps, seen, last, post_out>>

-----------------------------------------------------------------------------
(* Bounds of the model *)

\* largest max_retries a bare HttpClient is constructed with
MaxRetries == 6

\* largest max_retries an LLMConfig is constructed with
MaxCfgRetries == 2

\* largest max_retries of an HttpClient that two callers share
MaxConcRetries == 5

-----------------------------------------------------------------------------
(* Program constants *)

\* http_client.py:41  delay = min(delay * 2.0, 8.0)
BACKOFF_CAP == 8

\* http_client.py:24  delay = 1.0
INITIAL_DELAY == 1

\* http_client.py:17 / constants.py:14
DEFAULT_TIMEOUT_S == 60

\* constants.py:15
DEFAULT_MAX_RETRIES == 3

\* constants.py:12  0.2, in tenths
DEFAULT_TEMPERATURE == 2

\* adapters.py:151  cfg.max_tokens or 1024
ANTHROPIC_DEFAULT_MAX_TOKENS == 1024

\* constants.py:34
MAX_CONTENT_LENGTH_FOR_AI == 2000

\* constants.py:35
MAX_CONTENT_LENGTH_FOR_TAGS == 1000

Min(a, b) == IF a <= b THEN a ELSE b

-----------------------------------------------------------------------------
(* Error taxonomy: shared/errors.py and the exceptions of `requests` *)

\* the direct base classes of each exception class, in the order of its class
\* statement: errors.py for the three LLM errors, `requests` and the standard
\* library for the others
BaseOf(cls) ==
    CASE cls = "LLMRateLimit"          -> <<"LLMError">>
      [] cls = "LLMAuthError"          -> <<"LLMError">>
      [] cls = "LLMError"              -> <<"RuntimeError">>
      [] cls = "HTTPError"             -> <<"RequestException">>
      [] cls = "ConnectionError"       -> <<"RequestException">>
      [] cls = "RequestsJSONDecodeError" -> <<"InvalidJSONError", "JSONDecodeError">>
      [] cls = "InvalidJSONError"      -> <<"RequestException">>
      [] cls = "JSONDecodeError"       -> <<"ValueError">>
      [] cls = "RequestException"      -> <<"IOError">>
      [] cls = "ValueError"            -> <<"Exception">>
      [] cls = "AssertionError"        -> <<"Exception">>
      [] cls = "RuntimeError"          -> <<"Exception">>
      [] cls = "IOError"               -> <<"Exception">>
      [] cls = "Exception"             -> <<>>
      [] OTHER                         -> <<"Exception">>

RECURSIVE IsInstance(_, _)
\* Python isinstance(e, base) along the class hierarchy
IsInstance(cls, base) ==
    IF cls = base THEN TRUE
    ELSE \E i \in 1..Len(BaseOf(cls)) : IsInstance(BaseOf(cls)[i], base)

\* An exception value: class, what it reports, and (for the final error of
\* post) the url, the attempt count and the class/status of the wrapped failure.
\* Strings that the program builds or cuts are sequences of characters (or of
\* opaque chunks); names that are only compared are TLA+ strings.
Exc(cls, what, status) ==
    [cls |-> cls, what |-> what, status |-> status, name |-> "",
     url |-> << >>, attempts |-> -1, cause |-> "", cause_status |-> -1]

\* an exception whose message names something (a key, a provider)
ExcNamed(cls, what, name) == [Exc(cls, what, -1) EXCEPT !.name = name]

NoErr == Exc("None", "", -1)

\* http_client.py:43  LLMError(f"POST {url} failed after {max_retries} attempts: {last_err}")
PostFailed(url, n, e) ==
    [cls |-> "LLMError", what |-> "post_failed", status |-> -1, name |-> "",
     url |-> url, attempts |-> n, cause |-> e.cls, cause_status |-> e.status]

-----------------------------------------------------------------------------
(* JSON values, tagged so that values of different shapes can be compared.  *)
(* A string is a sequence of one-character strings.                         *)

JNull       == [t |-> "null"]
JStr(s)     == [t |-> "str", s |-> s]
JNum(n)     == [n |-> n, t |-> "num"]
JList(xs)   == [t |-> "list", items |-> xs]
JDict(f)    == [t |-> "dict", f |-> f]
JBool(b)    == [b |-> b, t |-> "bool"]

\* A float is kept as repr() writes it: form "finite" with the significant
\* digits d1 d2 ... dk (d1 and dk not 0, no digit for zero) and the power of
\* ten of d1, the double being the one nearest to d1.d2...dk * 10^exp10 and
\* the digits the fewest that denote it; or form "inf" or "nan". Two floats
\* are the same record exactly when they are the same double.
JFloat(form, neg, digits, exp10) ==
    [t |-> "float", form |-> form, neg |-> neg, digits |-> digits, exp10 |-> exp10]

IsDict(v)   == v.t = "dict"
HasKey(d, k) == k \in DOMAIN d.f

\* parsed bodies a provider may answer with
Bodies ==
    { \* Ollama shapes
      JDict([message |-> JDict([content |-> JStr(<<" ", "O", "k", "\n", "\n", "b", " ">>)]),
             eval_count |-> JNum(5)]),
      JDict([message |-> JDict([role |-> JStr(<<"a">>)])]),
      JDict([done |-> JNum(1)]),
      JDict([message |-> JStr(<<"x">>)]),
      JDict([message |-> JDict([content |-> JFloat("finite", FALSE, << >>, 0)])]),
      \* OpenAI shapes
      JDict([choices |-> JList(<<JDict([message |-> JDict([content |-> JStr(<<"h", "i">>)])])>>),
             usage |-> JDict([total_tokens |-> JNum(7)])]),
      JDict([error |-> JStr(<<"x">>)]),
      JDict([choices |-> JList(<< >>)]),
      \* Anthropic shapes
      JDict([content |-> JList(<<JDict([type |-> JStr(<<"t", "e", "x", "t">>), text |-> JStr(<<"a">>)]),
                                 JDict([type |-> JStr(<<"t", "e", "x", "t">>), text |-> JStr(<<"b", " ">>)])>>),
             usage |-> JDict([input_tokens |-> JNum(3)])]),
      JDict([content |-> JStr(<<"a">>)]),
      \* valid JSON that is not an object
      JList(<<JNum(1)>>),
      JStr(<<"o", "k">>) }

-----------------------------------------------------------------------------
(* Responses of session.post *)

\* status codes the server may answer with
Statuses == {200, 201, 304, 400, 401, 403, 404, 408, 429, 500, 599}

\* what resp.json() does: returns a parsed value, or raises.  requests >= 2.27
\* raises requests.exceptions.JSONDecodeError (a RequestException); older
\* versions and mocks raise a plain ValueError.
JsonOk(v)   == [exc |-> "none", val |-> v]
JsonBad(c)  == [exc |-> c, val |-> JNull]
JsonOutcomes == {JsonOk(b) : b \in Bodies}
                \cup {JsonBad("RequestsJSONDecodeError"), JsonBad("ValueError")}

\* a network-level failure: session.post itself raises a RequestException
NetFail == [status |-> 0, net |-> TRUE, json |-> JsonBad("ValueError")]

Responses ==
    {NetFail}
    \cup {[status |-> s, net |-> FALSE, json |-> JsonBad("ValueError")] : s \in Statuses}
    \cup {[status |-> s, net |-> FALSE, json |-> j] : s \in {200, 201, 304}, j \in JsonOutcomes}

\* the responses the facade's transport is exercised with
FacadeStatuses == {200, 401, 404, 429, 500}
FacadeResponses == {r \in Responses : r.net \/ r.status \in FacadeStatuses}

RespKind(r) == [status |-> r.status, net |-> r.net, json |-> r.json.exc]

NoResp == [status |-> -1, net |-> FALSE, json |-> JsonBad("none")]

-----------------------------------------------------------------------------
(* Configuration and empty values *)

\* config.py:24-49  LLMConfig(provider, model, ...) with the defaults of constants.py
MkConfig(provider, okey, akey, max_tokens, max_retries) ==
    [provider |-> provider, max_tokens |-> max_tokens, max_retries |-> max_retries,
     model |-> JStr(<<"llama3">>), temperature |-> JFloat("finite", FALSE, <<DEFAULT_TEMPERATURE>>, -1),
     timeout_s |-> DEFAULT_TIMEOUT_S,
     openai_api_key |-> okey, openai_base_url |-> <<"https://api.openai.com">>,
     anthropic_api_key |-> akey, anthropic_api_url |-> <<"https://api.anthropic.com">>,
     anthropic_version |-> JStr(<<"2023-06-01">>),
     ollama_base_url |-> <<"http://localhost:11434">>]

\* no facade: the HttpClient stands alone
NoConfig == MkConfig("none", JNull, JNull, JNull, 0)

\* the variables LLMConfig.from_env reads (config.py:73-95)
EnvNames == {"LLM_PROVIDER", "LLM_MODEL", "LLM_TEMPERATURE", "LLM_MAX_TOKENS",
             "LLM_TIMEOUT_S", "LLM_MAX_RETRIES", "OPENAI_API_KEY", "OPENAI_BASE_URL",
             "ANTHROPIC_API_KEY", "ANTHROPIC_API_URL", "ANTHROPIC_VERSION",
             "OLLAMA_BASE_URL"}

\* an environment in which none of them is set
NoEnv == [n \in EnvNames |-> JNull]

\* no client has been constructed
NoClient == [max_retries |-> -1, timeout_s |-> -1]

NoOp == [name |-> "none", text |-> << >>, messages |-> << >>, max_tags |-> 0]

NoResult == [val |-> JNull, kind |-> "none", err |-> NoErr]

-----------------------------------------------------------------------------
(* HttpClient.post, shared/http_client.py:22-43 *)

Returned(v) == [val |-> v, kind |-> "return", err |-> NoErr]
Raised(e)   == [val |-> JNull, kind |-> "raise", err |-> e]
NoOutcome   == [val |-> JNull, kind |-> "none", err |-> NoErr]

NoRequest == [url |-> << >>, json |-> JNull, headers |-> JNull]

\* mutant: only server errors raise
RaiseForStatus_ServerOnly(status) == 500 <= status /\ status < 600

\* requests.Response.raise_for_status: raises HTTPError for 4xx and 5xx only
RaiseForStatus(status) == 400 <= status /\ status < 600

\* mutant: a successful response returns no body (return resp.json() lost)
TryBody_NoBody(resp) ==
    IF resp.net THEN Raised(Exc("ConnectionError", "network", -1))
    ELSE IF resp.status \in {429, 408}
        THEN Raised(Exc("LLMRateLimit", "rate_limited", resp.status))
    ELSE IF 500 <= resp.status /\ resp.status < 600
        THEN Raised(Exc("LLMError", "server_error", resp.status))
    ELSE IF resp.status \in {401, 403}
        THEN Raised(Exc("LLMAuthError", "auth_failed", resp.status))
    ELSE IF RaiseForStatus(resp.status)
        THEN Raised(Exc("HTTPError", "http_error", resp.status))
    ELSE IF resp.json.exc # "none"
        THEN Raised(Exc(resp.json.exc, "bad_json", resp.status))
    ELSE Returned(JNull)

\* the body of the try block, lines 27-35, for one response
TryBody(resp) ==
    IF resp.net THEN Raised(Exc("ConnectionError", "network", -1))
    ELSE IF resp.status \in {429, 408}
        THEN Raised(Exc("LLMRateLimit", "rate_limited", resp.status))
    ELSE IF 500 <= resp.status /\ resp.status < 600
        THEN Raised(Exc("LLMError", "server_error", resp.status))
    ELSE IF resp.status \in {401, 403}
        THEN Raised(Exc("LLMAuthError", "auth_failed", resp.status))
    ELSE IF RaiseForStatus(resp.status)
        THEN Raised(Exc("HTTPError", "http_error", resp.status))
    ELSE IF resp.json.exc # "none"
        THEN Raised(Exc(resp.json.exc, "bad_json", resp.status))
    ELSE Returned(resp.json.val)

\* line 36: except (requests.RequestException, LLMError)
Caught(e) == IsInstance(e.cls, "RequestException") \/ IsInstance(e.cls, "LLMError")

\* mutant: the backoff is not capped
NextDelay_NoCap(d) == d * 2

\* mutant: the backoff grows by one instead of doubling
NextDelay_Linear(d) == Min(d + 1, BACKOFF_CAP)

\* line 41: delay = min(delay * 2.0, 8.0)
NextDelay(d) == Min(d * 2, BACKOFF_CAP)

\* mutant: the backoff delay is an attribute of the client that post never resets
EnterPost_KeepDelay(url, headers, json) ==
    /\ request' = [url |-> url, json |-> json, headers |-> headers]
    /\ attempt' = 1
    /\ delay' = delay
    /\ last_err' = NoErr
    /\ nposts' = 0
    /\ sleeps' = << >>
    /\ seen' = {}
    /\ last' = NoResp
    /\ IF http.max_retries >= 1
       THEN /\ pc' = "post"
            /\ post_out' = NoOutcome
       ELSE /\ pc' = "post_done"
            /\ post_out' = Raised(Exc("AssertionError", "assert", -1))

\* lines 23-25 (and 42-43 when the loop body never runs): entry of post
EnterPost(url, headers, json) ==
    /\ request' = [url |-> url, json |-> json, headers |-> headers]
    /\ attempt' = 1
    /\ delay' = INITIAL_DELAY
    /\ last_err' = NoErr
    /\ nposts' = 0
    /\ sleeps' = << >>
    /\ seen' = {}
    /\ last' = NoResp
    /\ IF http.max_retries >= 1
       THEN /\ pc' = "post"
            /\ post_out' = NoOutcome
       ELSE \* range(1, max_retries + 1) is empty: assert last_err is not None
            /\ pc' = "post_done"
            /\ post_out' = Raised(Exc("AssertionError", "assert", -1))

\* a direct call of HttpClient.post
PostCall ==
    /\ pc \in {"idle", "post_done"}
    /\ cfg.provider = "none"
    /\ EnterPost(<<"u">>, JNull, JNull)
    /\ UNCHANGED <<cfg, http, op, invoked, npostcalls, out, env>>

\* one iteration of the for loop up to the wait, lines 25-40, and lines 42-43
\* after a break, for a response drawn from R: session.post answers, the
\* outcome is returned or raised, or last_err is bound and time.sleep(delay)
\* begins
PostStep(R) ==
    /\ pc = "post"
    /\ \E resp \in R :
        LET r == TryBody(resp) IN
        /\ nposts' = nposts + 1
        /\ last' = resp
        /\ seen' = IF last = NoResp THEN seen ELSE seen \cup {RespKind(last)}
        /\ IF r.kind = "return"
           THEN /\ post_out' = r
                /\ pc' = "post_done"
                /\ UNCHANGED <<attempt, delay, last_err, sleeps>>
           ELSE IF ~Caught(r.err)
           THEN /\ post_out' = r
                /\ pc' = "post_done"
                /\ UNCHANGED <<attempt, delay, last_err, sleeps>>
           ELSE /\ last_err' = r.err
                /\ IF attempt = http.max_retries
                   THEN /\ post_out' = Raised(PostFailed(request.url, http.max_retries, r.err))
                        /\ pc' = "post_done"
                        /\ UNCHANGED <<attempt, delay, sleeps>>
                   ELSE /\ sleeps' = Append(sleeps, delay)
                        /\ pc' = "sleep"
                        /\ UNCHANGED <<attempt, delay, post_out>>
    /\ UNCHANGED <<cfg, http, op, request, invoked, npostcalls, out, env>>

\* time.sleep(delay) of line 40 returns: line 41 doubles the delay and the
\* loop of line 25 moves to the next attempt
WakeStep ==
    /\ pc = "sleep"
    /\ delay' = NextDelay(delay)
    /\ attempt' = attempt + 1
    /\ pc' = "post"
    /\ UNCHANGED <<cfg, http, op, request, last_err, nposts, sleeps, seen, last, post_out,
                   invoked, npostcalls, out, env>>

\* an attempt of a post called directly on the HttpClient
PostAttempt == cfg.provider = "none" /\ PostStep(Responses)

\* the wait between two attempts of a post called directly on the HttpClient ends
PostWake == cfg.provider = "none" /\ WakeStep

\* an attempt of the post an adapter called through the facade's HttpClient
TransportAttempt == cfg.provider # "none" /\ PostStep(FacadeResponses)

\* the wait between two attempts of the facade's transport ends
TransportWake == cfg.provider # "none" /\ WakeStep

-----------------------------------------------------------------------------
(* Strings: Python str operations used by the facade and the adapters *)

\* the characters str.isspace() holds for, up to U+00FF: tab, line feed,
\* vertical tab, form feed, carriage return, U+001C to U+001F, space, U+0085
\* and the no-break space
Whitespace == {"\t", "\n", "", "\f", "\r", "", "", "", "", " ", "", " "}

RECURSIVE LStrip(_)
LStrip(s) == IF s # << >> /\ Head(s) \in Whitespace THEN LStrip(Tail(s)) ELSE s

RECURSIVE RStrip(_)
RStrip(s) == IF s # << >> /\ s[Len(s)] \in Whitespace
             THEN RStrip(SubSeq(s, 1, Len(s) - 1)) ELSE s

\* str.strip()
Strip(s) == LStrip(RStrip(s))

\* str.lower() on one character: the cased letters up to U+00FF
LowerChar(c) ==
    CASE c = "A" -> "a" [] c = "B" -> "b" [] c = "C" -> "c" [] c = "D" -> "d"
      [] c = "E" -> "e" [] c = "F" -> "f" [] c = "G" -> "g" [] c = "H" -> "h"
      [] c = "I" -> "i" [] c = "J" -> "j" [] c = "K" -> "k" [] c = "L" -> "l"
      [] c = "M" -> "m" [] c = "N" -> "n" [] c = "O" -> "o" [] c = "P" -> "p"
      [] c = "Q" -> "q" [] c = "R" -> "r" [] c = "S" -> "s" [] c = "T" -> "t"
      [] c = "U" -> "u" [] c = "V" -> "v" [] c = "W" -> "w" [] c = "X" -> "x"
      [] c = "Y" -> "y" [] c = "Z" -> "z" [] c = "À" -> "à" [] c = "Á" -> "á"
      [] c = "Â" -> "â" [] c = "Ã" -> "ã" [] c = "Ä" -> "ä" [] c = "Å" -> "å"
      [] c = "Æ" -> "æ" [] c = "Ç" -> "ç" [] c = "È" -> "è" [] c = "É" -> "é"
      [] c = "Ê" -> "ê" [] c = "Ë" -> "ë" [] c = "Ì" -> "ì" [] c = "Í" -> "í"
      [] c = "Î" -> "î" [] c = "Ï" -> "ï" [] c = "Ð" -> "ð" [] c = "Ñ" -> "ñ"
      [] c = "Ò" -> "ò" [] c = "Ó" -> "ó" [] c = "Ô" -> "ô" [] c = "Õ" -> "õ"
      [] c = "Ö" -> "ö" [] c = "Ø" -> "ø" [] c = "Ù" -> "ù" [] c = "Ú" -> "ú"
      [] c = "Û" -> "û" [] c = "Ü" -> "ü" [] c = "Ý" -> "ý" [] c = "Þ" -> "þ"
      [] OTHER -> c

\* str.lower()
Lower(s) == [i \in 1..Len(s) |-> LowerChar(s[i])]

RECURSIVE SplitOn(_, _, _)
\* str.split(sep): cur is the piece being collected
SplitOn(s, sep, cur) ==
    IF s = << >> THEN <<cur>>
    ELSE IF Head(s) = sep THEN <<cur>> \o SplitOn(Tail(s), sep, << >>)
    ELSE SplitOn(Tail(s), sep, Append(cur, Head(s)))

SplitLines(s) == SplitOn(s, "\n", << >>)

\* seq[:n], Python slicing with a possibly negative stop
SliceTo(s, n) ==
    IF n >= 0 THEN SubSeq(s, 1, Min(n, Len(s)))
    ELSE SubSeq(s, 1, IF Len(s) + n > 0 THEN Len(s) + n ELSE 0)

RECURSIVE RStripSlash(_)
\* str.rstrip('/')
RStripSlash(s) == IF s # << >> /\ s[Len(s)] = "/"
                  THEN RStripSlash(SubSeq(s, 1, Len(s) - 1)) ELSE s

RECURSIVE SelectSeq2(_, _)
\* [f(x) for x in s if keep(x)] for s a sequence of pairs <<keep, value>>
SelectSeq2(s, acc) ==
    IF s = << >> THEN acc
    ELSE SelectSeq2(Tail(s), IF Head(s)[1] THEN Append(acc, Head(s)[2]) ELSE acc)

\* Python truthiness of a JSON value (`not v`, `v or default`)
Truthy(v) ==
    CASE v.t = "null" -> FALSE
      [] v.t = "str"  -> v.s # << >>
      [] v.t = "num"  -> v.n # 0
      [] v.t = "list" -> v.items # << >>
      [] v.t = "dict" -> DOMAIN v.f # {}
      [] v.t = "bool" -> v.b
      [] v.t = "float" -> ~(v.form = "finite" /\ v.digits = << >>)

\* dict.get(k, default)
Get(d, k, default) == IF k \in DOMAIN d.f THEN d.f[k] ELSE default

-----------------------------------------------------------------------------
(* config.py:99-109: endpoint URLs *)

OpenAIUrl(c)    == RStripSlash(c.openai_base_url) \o <<"/v1/chat/completions">>
AnthropicUrl(c) == RStripSlash(c.anthropic_api_url) \o <<"/v1/messages">>
OllamaUrl(c)    == RStripSlash(c.ollama_base_url) \o <<"/api/chat">>

-----------------------------------------------------------------------------
(* Provider adapters, shared/llm/adapters.py *)

Msg(role, content) == [content |-> content, role |-> role]

\* a ChatMessage as it is serialised in a request body
MsgJson(m) == JDict([content |-> JStr(m.content), role |-> JStr(<<m.role>>)])
MsgsJson(ms) == JList([i \in 1..Len(ms) |-> MsgJson(ms[i])])

\* adapters.py:37-43  LLMResult
LLMResult(text, raw, provider, model, usage) ==
    [t |-> "result", usage |-> usage, text |-> text, provider |-> provider,
     model |-> model, raw |-> raw]

\* mutant: only an absent value is rejected, an empty one passes
RequireOk_NotNone(value) == value # JNull

\* adapters.py:55-60  BaseAdapter.require: TRUE when the value is accepted
RequireOk(value) == Truthy(value)

\* adapters.py:62-67  BaseAdapter.ensure_dict: TRUE when the object is accepted
EnsureDictOk(obj) == IsDict(obj)

RECURSIVE SplitCore_DropSystems(_, _)
\* mutant: every system message is left out of `core`
SplitCore_DropSystems(ms, sysSeen) ==
    IF ms = << >> THEN << >>
    ELSE IF Head(ms).role = "system"
         THEN SplitCore_DropSystems(Tail(ms), TRUE)
         ELSE <<Head(ms)>> \o SplitCore_DropSystems(Tail(ms), sysSeen)

RECURSIVE SplitCore(_, _)
\* adapters.py:75-79: the messages kept in `core`; sysSeen: system is not None
SplitCore(ms, sysSeen) ==
    IF ms = << >> THEN << >>
    ELSE IF Head(ms).role = "system" /\ ~sysSeen
         THEN SplitCore(Tail(ms), TRUE)
         ELSE <<Head(ms)>> \o SplitCore(Tail(ms), sysSeen)

\* adapters.py:69-81  BaseAdapter.split_system_message -> (system, core);
\* `messages` is the argument as the call leaves it: it is only iterated
split_system_message(ms) ==
    LET idx == {i \in 1..Len(ms) : ms[i].role = "system"} IN
    [messages |-> ms,
     system |-> IF idx = {} THEN JNull
                ELSE JStr(ms[CHOOSE i \in idx : \A j \in idx : i <= j].content),
     core   |-> SplitCore(ms, FALSE)]

\* adapters.py:94-105  OpenAIAdapter.chat: headers and payload
OpenAIHeaders(c) ==
    JDict([Authorization |-> JStr(<<"Bearer ">> \o c.openai_api_key.s),
           ContentType |-> JStr(<<"application/json">>)])

\* mutant: max_tokens is sent only when it is truthy
OpenAIPayload_Truthy(c, ms) ==
    IF Truthy(c.max_tokens)
    THEN JDict([max_tokens |-> c.max_tokens, model |-> c.model,
                temperature |-> c.temperature, messages |-> MsgsJson(ms)])
    ELSE JDict([model |-> c.model, temperature |-> c.temperature,
                messages |-> MsgsJson(ms)])

\* adapters.py:99-105
OpenAIPayload(c, ms) ==
    IF c.max_tokens # JNull
    THEN JDict([max_tokens |-> c.max_tokens, model |-> c.model,
                temperature |-> c.temperature, messages |-> MsgsJson(ms)])
    ELSE JDict([model |-> c.model, temperature |-> c.temperature,
                messages |-> MsgsJson(ms)])

\* mutant: a response without usable choices yields an empty text
OpenAIParse_Lenient(raw) ==
    IF HasKey(raw, "choices") /\ raw.f.choices.t = "list" /\ raw.f.choices.items # << >>
       /\ raw.f.choices.items[1].t = "dict" /\ HasKey(raw.f.choices.items[1], "message")
       /\ raw.f.choices.items[1].f.message.t = "dict"
       /\ HasKey(raw.f.choices.items[1].f.message, "content")
    THEN Returned(raw.f.choices.items[1].f.message.f.content)
    ELSE Returned(JStr(<< >>))

\* adapters.py:112-116  text = raw["choices"][0]["message"]["content"]
OpenAIParse(raw) ==
    IF ~HasKey(raw, "choices") THEN Raised(ExcNamed("LLMError", "unexpected response format", "OpenAI"))
    ELSE LET ch == raw.f.choices IN
      IF ch.t # "list" \/ (ch.t = "list" /\ ch.items = << >>)
      THEN Raised(ExcNamed("LLMError", "unexpected response format", "OpenAI"))
      ELSE LET first == ch.items[1] IN
        IF first.t # "dict" \/ ~("message" \in DOMAIN first.f)
        THEN Raised(ExcNamed("LLMError", "unexpected response format", "OpenAI"))
        ELSE LET m == first.f.message IN
          IF m.t # "dict" \/ ~("content" \in DOMAIN m.f)
          THEN Raised(ExcNamed("LLMError", "unexpected response format", "OpenAI"))
          ELSE Returned(m.f.content)

\* adapters.py:118-124
OpenAIResult(c, raw) ==
    LET p == OpenAIParse(raw) IN
    IF p.kind = "raise" THEN p
    ELSE Returned(LLMResult(p.val, raw, "openai", c.model, Get(raw, "usage", JNull)))

\* adapters.py:134-138
AnthropicHeaders(c) ==
    JDict([anthropic_version |-> c.anthropic_version,
           x_api_key |-> c.anthropic_api_key,
           content_type |-> JStr(<<"application/json">>)])

\* mutant: the role is copied whatever it is
AnthropicMsg_KeepRole(m) ==
    JDict([content |-> JList(<<JDict([type |-> JStr(<<"t", "e", "x", "t">>),
                                      text |-> JStr(m.content)])>>),
           role |-> JStr(<<m.role>>)])

\* adapters.py:141-147: one converted message
AnthropicMsg(m) ==
    JDict([content |-> JList(<<JDict([type |-> JStr(<<"t", "e", "x", "t">>),
                                      text |-> JStr(m.content)])>>),
           role |-> JStr(<<IF m.role \in {"user", "assistant"} THEN m.role ELSE "user">>)])

\* mutant: the system field is sent whenever a system message was found
AnthropicPayload_SystemIfPresent(c, ms) ==
    LET sp == split_system_message(ms)
        msgs == JList([i \in 1..Len(sp.core) |-> AnthropicMsg(sp.core[i])])
        mt == IF Truthy(c.max_tokens) THEN c.max_tokens ELSE JNum(ANTHROPIC_DEFAULT_MAX_TOKENS)
    IN IF sp.system # JNull
       THEN JDict([max_tokens |-> mt, model |-> c.model, temperature |-> c.temperature,
                   messages |-> msgs, system |-> sp.system])
       ELSE JDict([max_tokens |-> mt, model |-> c.model, temperature |-> c.temperature,
                   messages |-> msgs])

\* adapters.py:149-156
AnthropicPayload(c, ms) ==
    LET sp == split_system_message(ms)
        msgs == JList([i \in 1..Len(sp.core) |-> AnthropicMsg(sp.core[i])])
        mt == IF Truthy(c.max_tokens) THEN c.max_tokens ELSE JNum(ANTHROPIC_DEFAULT_MAX_TOKENS)
    IN IF Truthy(sp.system)
       THEN JDict([max_tokens |-> mt, model |-> c.model, temperature |-> c.temperature,
                   messages |-> msgs, system |-> sp.system])
       ELSE JDict([max_tokens |-> mt, model |-> c.model, temperature |-> c.temperature,
                   messages |-> msgs])

\* adapters.py:171: isinstance(block, dict) and block.get("type") == "text"
IsTextBlock(b) == b.t = "dict" /\ Get(b, "type", JNull) = JStr(<<"t", "e", "x", "t">>)

RECURSIVE JoinTexts_Reversed(_)
\* mutant: the blocks are joined last to first
JoinTexts_Reversed(xs) == IF xs = << >> THEN << >> ELSE JoinTexts_Reversed(Tail(xs)) \o Head(xs).s

RECURSIVE JoinTexts(_)
\* "".join(...) over a sequence of JSON strings
JoinTexts(xs) == IF xs = << >> THEN << >> ELSE Head(xs).s \o JoinTexts(Tail(xs))

\* adapters.py:164-174
AnthropicParse(raw) ==
    IF ~HasKey(raw, "content") \/ raw.f.content.t # "list"
    THEN Raised(ExcNamed("LLMError", "unexpected response format", "Anthropic"))
    ELSE LET blocks == raw.f.content.items
             parts == SelectSeq2([i \in 1..Len(blocks) |->
                          <<IsTextBlock(blocks[i]),
                            IF blocks[i].t = "dict"
                            THEN Get(blocks[i], "text", JStr(<< >>)) ELSE JNull>>], << >>)
         IN IF \E i \in 1..Len(parts) : parts[i].t # "str"
            THEN \* "".join of a non-string item: TypeError
                 Raised(ExcNamed("LLMError", "unexpected response format", "Anthropic"))
            ELSE Returned(JStr(Strip(JoinTexts(parts))))

\* adapters.py:176-182
AnthropicResult(c, raw) ==
    LET p == AnthropicParse(raw) IN
    IF p.kind = "raise" THEN p
    ELSE Returned(LLMResult(p.val, raw, "anthropic", c.model, Get(raw, "usage", JNull)))

\* adapters.py:189-199
OllamaPayload(c, ms) ==
    JDict([model |-> c.model, messages |-> MsgsJson(ms), stream |-> JBool(FALSE),
           options |-> IF c.max_tokens # JNull
                       THEN JDict([temperature |-> c.temperature, num_predict |-> c.max_tokens])
                       ELSE JDict([temperature |-> c.temperature])])

\* mutant: a response without a message object is rejected
OllamaParse_Strict(raw) ==
    IF ~HasKey(raw, "message") \/ raw.f.message.t # "dict"
    THEN Raised(ExcNamed("LLMError", "unexpected response format", "Ollama"))
    ELSE LET content == Get(raw.f.message, "content", JStr(<< >>)) IN
         Returned(IF Truthy(content) THEN content ELSE JStr(<< >>))

\* adapters.py:207-213
OllamaParse(raw) ==
    LET message == Get(raw, "message", JDict(<< >>)) IN
    IF message.t # "dict"
    THEN Raised(ExcNamed("LLMError", "unexpected response format", "Ollama"))
    ELSE LET content == Get(message, "content", JStr(<< >>)) IN
         Returned(IF Truthy(content) THEN content ELSE JStr(<< >>))

\* mutant: usage is read from the response's usage key, as the other adapters do
OllamaResult_RawUsage(c, raw) ==
    LET p == OllamaParse(raw) IN
    IF p.kind = "raise" THEN p
    ELSE Returned(LLMResult(p.val, raw, "ollama", c.model, Get(raw, "usage", JNull)))

\* adapters.py:215-221
OllamaResult(c, raw) ==
    LET p == OllamaParse(raw) IN
    IF p.kind = "raise" THEN p
    ELSE Returned(LLMResult(p.val, raw, "ollama", c.model,
                            JDict([eval_count |-> Get(raw, "eval_count", JNull)])))

\* client.py:31-35  self._adapters
AdapterKeys == {"openai", "anthropic", "ollama"}

\* the part of <Adapter>.chat before client.post: the error it raises, or
\* the request it hands to the transport
AdapterRequest(a, c, ms) ==
    CASE a = "openai" ->
           IF ~RequireOk(c.openai_api_key)
           THEN [err |-> ExcNamed("LLMAuthError", "Missing", "OPENAI_API_KEY"), ok |-> FALSE,
                 req |-> NoRequest]
           ELSE [err |-> NoErr, ok |-> TRUE,
                 req |-> [url |-> OpenAIUrl(c), json |-> OpenAIPayload(c, ms),
                          headers |-> OpenAIHeaders(c)]]
      [] a = "anthropic" ->
           IF ~RequireOk(c.anthropic_api_key)
           THEN [err |-> ExcNamed("LLMAuthError", "Missing", "ANTHROPIC_API_KEY"), ok |-> FALSE,
                 req |-> NoRequest]
           ELSE [err |-> NoErr, ok |-> TRUE,
                 req |-> [url |-> AnthropicUrl(c), json |-> AnthropicPayload(c, ms),
                          headers |-> AnthropicHeaders(c)]]
      [] a = "ollama" ->
           [err |-> NoErr, ok |-> TRUE,
            req |-> [url |-> OllamaUrl(c), json |-> OllamaPayload(c, ms), headers |-> JNull]]

\* mutant: a body that is not an object is passed on as an empty answer
AdapterResult_Wrap(a, c, body) ==
    IF ~EnsureDictOk(body)
    THEN Returned(LLMResult(JStr(<< >>), body, a, c.model, JNull))
    ELSE CASE a = "openai"    -> OpenAIResult(c, body)
           [] a = "anthropic" -> AnthropicResult(c, body)
           [] a = "ollama"    -> OllamaResult(c, body)

\* the part of <Adapter>.chat after client.post returned `body`
AdapterResult(a, c, body) ==
    IF ~EnsureDictOk(body)
    THEN Raised(ExcNamed("LLMError", "expected JSON object", a))
    ELSE CASE a = "openai"    -> OpenAIResult(c, body)
           [] a = "anthropic" -> AnthropicResult(c, body)
           [] a = "ollama"    -> OllamaResult(c, body)

-----------------------------------------------------------------------------
(* The LLM facade, shared/llm/client.py *)

\* mutant: an unknown provider falls back to the local adapter
Lookup_Fallback(provider) == IF provider \in AdapterKeys THEN provider ELSE "ollama"

\* client.py:55  self._adapters.get(self.cfg.provider); "none" stands for None
Lookup(provider) == IF provider \in AdapterKeys THEN provider ELSE "none"

\* mutant: the convenience methods turn a failed chat into an empty answer
OpResult_Swallow(o, r) ==
    IF o.name = "chat" THEN r
    ELSE IF r.kind = "raise" THEN Returned(JStr(<< >>))
    ELSE Returned(r.val.text)

\* mutant: extract_tags cuts the lines at max_tags before it drops the blank ones
OpResult_CutFirst(o, r) ==
    IF r.kind = "raise" THEN r
    ELSE CASE o.name = "chat" -> r
           [] o.name = "summarize" -> Returned(r.val.text)
           [] o.name = "extract_tags" ->
                IF r.val.text.t # "str"
                THEN Raised(Exc("AttributeError", "split", -1))
                ELSE LET lines == SliceTo(SplitLines(r.val.text.s), o.max_tags)
                         tags == SelectSeq2([i \in 1..Len(lines) |->
                                    <<Strip(lines[i]) # << >>, JStr(Strip(lines[i]))>>], << >>)
                     IN Returned(JList(tags))
           [] o.name = "analyze_sentiment" ->
                IF r.val.text.t # "str"
                THEN Raised(Exc("AttributeError", "strip", -1))
                ELSE Returned(JStr(Lower(Strip(r.val.text.s))))

\* mutant: analyze_sentiment maps an answer outside the three labels to neutral
OpResult_Validated(o, r) ==
    IF r.kind = "raise" THEN r
    ELSE CASE o.name = "chat" -> r
           [] o.name = "summarize" -> Returned(r.val.text)
           [] o.name = "extract_tags" ->
                IF r.val.text.t # "str"
                THEN Raised(Exc("AttributeError", "split", -1))
                ELSE LET lines == SplitLines(r.val.text.s)
                         tags == SelectSeq2([i \in 1..Len(lines) |->
                                    <<Strip(lines[i]) # << >>, JStr(Strip(lines[i]))>>], << >>)
                     IN Returned(JList(SliceTo(tags, o.max_tags)))
           [] o.name = "analyze_sentiment" ->
                IF r.val.text.t # "str"
                THEN Raised(Exc("AttributeError", "strip", -1))
                ELSE IF Lower(Strip(r.val.text.s)) \in
                          { <<"p", "o", "s", "i", "t", "i", "v", "e">>,
                            <<"n", "e", "g", "a", "t", "i", "v", "e">>,
                            <<"n", "e", "u", "t", "r", "a", "l">> }
                     THEN Returned(JStr(Lower(Strip(r.val.text.s))))
                     ELSE Returned(JStr(<<"n", "e", "u", "t", "r", "a", "l">>))

\* what each operation makes of the outcome `r` of self.chat(messages):
\* client.py:59 (chat), 85 (summarize), 112-113 (extract_tags), 136 (analyze_sentiment)
OpResult(o, r) ==
    IF r.kind = "raise" THEN r
    ELSE CASE o.name = "chat" -> r
           [] o.name = "summarize" -> Returned(r.val.text)
           [] o.name = "extract_tags" ->
                IF r.val.text.t # "str"
                THEN Raised(Exc("AttributeError", "split", -1))
                ELSE LET lines == SplitLines(r.val.text.s)
                         tags == SelectSeq2([i \in 1..Len(lines) |->
                                    <<Strip(lines[i]) # << >>, JStr(Strip(lines[i]))>>], << >>)
                     IN Returned(JList(SliceTo(tags, o.max_tags)))
           [] o.name = "analyze_sentiment" ->
                IF r.val.text.t # "str"
                THEN Raised(Exc("AttributeError", "strip", -1))
                ELSE Returned(JStr(Lower(Strip(r.val.text.s))))

\* the observations of the transport, cleared when an operation makes no post
ResetPost ==
    /\ request' = NoRequest
    /\ attempt' = 1
    /\ delay' = INITIAL_DELAY
    /\ last_err' = NoErr
    /\ nposts' = 0
    /\ sleeps' = << >>
    /\ seen' = {}
    /\ last' = NoResp
    /\ post_out' = NoOutcome

\* client.py:55-59  LLM.chat(messages), up to the adapter's client.post call
\* `text` is the argument of a convenience method, `ms` the messages it builds
StartOp(name, text, ms, max_tags) ==
    /\ pc \in {"idle", "done"}
    /\ cfg.provider # "none"
    /\ op' = [name |-> name, text |-> text, messages |-> ms, max_tags |-> max_tags]
    /\ LET a == Lookup(cfg.provider) IN
       IF a = "none"
       THEN /\ invoked' = << >>
            /\ npostcalls' = 0
            /\ out' = Raised(ExcNamed("LLMError", "Unsupported provider", cfg.provider))
            /\ pc' = "done"
            /\ ResetPost
       ELSE LET ar == AdapterRequest(a, cfg, ms) IN
            /\ invoked' = <<a>>
            /\ IF ar.ok
               THEN /\ npostcalls' = 1
                    /\ out' = NoResult
                    /\ EnterPost(ar.req.url, ar.req.headers, ar.req.json)
               ELSE /\ npostcalls' = 0
                    /\ out' = Raised(ar.err)
                    /\ pc' = "done"
                    /\ ResetPost
    /\ UNCHANGED <<cfg, http, env>>

\* conversations handed to LLM.chat
ChatInputs ==
    { <<Msg("user", <<"h", "i">>)>>,
      <<Msg("system", <<"S">>), Msg("user", <<"q">>), Msg("system", <<"T">>),
        Msg("assistant", <<"r">>)>>,
      <<Msg("user", <<"q">>), Msg("system", << >>), Msg("tool", <<"x">>)>> }

\* texts handed to the convenience methods
Texts == { << >>, <<"a", " ", "b">> }

Styles == {"concise"}

MaxTagsValues == {2, 5}

\* client.py:76-82  the messages LLM.summarize builds
SummarizeMessages(text, style) ==
    <<Msg("system", <<"Summarize the following text in a ", style, " manner.">>),
      Msg("user", SliceTo(text, MAX_CONTENT_LENGTH_FOR_AI))>>

\* mutant: the tag extraction cuts its input at the budget of summarize
ExtractTagsMessages_AIBudget(text, max_tags) ==
    <<Msg("system", <<"Extract up to ", ToString(max_tags),
                      " relevant tags from the text. Return only the tags, one per line.">>),
      Msg("user", SliceTo(text, MAX_CONTENT_LENGTH_FOR_AI))>>

\* client.py:98-108  the messages LLM.extract_tags builds
ExtractTagsMessages(text, max_tags) ==
    <<Msg("system", <<"Extract up to ", ToString(max_tags),
                      " relevant tags from the text. Return only the tags, one per line.">>),
      Msg("user", SliceTo(text, MAX_CONTENT_LENGTH_FOR_TAGS))>>

\* client.py:125-133  the messages LLM.analyze_sentiment builds
SentimentMessages(text) ==
    <<Msg("system", <<"Analyze the sentiment of the following text. Respond with just: positive, negative, or neutral.">>),
      Msg("user", SliceTo(text, MAX_CONTENT_LENGTH_FOR_AI))>>

\* client.py:42-59  LLM.chat
Chat == \E ms \in ChatInputs : StartOp("chat", << >>, ms, 0)

\* client.py:65-84  LLM.summarize, up to the post
Summarize ==
    \E text \in Texts, style \in Styles :
        StartOp("summarize", text, SummarizeMessages(text, style), 0)

\* client.py:87-109  LLM.extract_tags, up to the post
ExtractTags ==
    \E text \in Texts, max_tags \in MaxTagsValues :
        StartOp("extract_tags", text, ExtractTagsMessages(text, max_tags), max_tags)

\* client.py:115-135  LLM.analyze_sentiment, up to the post
AnalyzeSentiment ==
    \E text \in Texts :
        StartOp("analyze_sentiment", text, SentimentMessages(text), 0)

\* the rest of the operation once client.post has returned or raised:
\* the adapter's ensure_dict and parse, then the operation's own last lines
Finish ==
    /\ pc = "post_done"
    /\ cfg.provider # "none"
    /\ out' = OpResult(op, IF post_out.kind = "raise" THEN post_out
                           ELSE AdapterResult(invoked[1], cfg, post_out.val))
    /\ pc' = "done"
    /\ UNCHANGED <<cfg, http, op, request, invoked, npostcalls, env>>
    /\ UNCHANGED postLocals

\* values of the two API keys: absent, empty, set
KeyPairs == { <<JNull, JNull>>, <<JStr(<< >>), JStr(<<"k">>)>>,
              <<JStr(<<"k">>), JStr(<< >>)>>, <<JStr(<<"k">>), JStr(<<"k">>)>> }

MaxTokensValues == {JNull, JNum(0), JNum(100)}

ProviderValues == AdapterKeys \cup {"unsupported"}

\* the configurations a facade is built with
Configs == { MkConfig(p, k[1], k[2], mt, n) :
             p \in ProviderValues, k \in KeyPairs, mt \in MaxTokensValues, n \in 0..MaxCfgRetries }

\* client.py:23-35  LLM(config)
Init ==
    /\ cfg \in Configs
    /\ http = [max_retries |-> cfg.max_retries, timeout_s |-> cfg.timeout_s]
    /\ pc = "idle"
    /\ op = NoOp
    /\ request = NoRequest
    /\ attempt = 1
    /\ delay = INITIAL_DELAY
    /\ last_err = NoErr
    /\ nposts = 0
    /\ sleeps = << >>
    /\ seen = {}
    /\ last = NoResp
    /\ post_out = NoOutcome
    /\ invoked = << >>
    /\ npostcalls = 0
    /\ out = NoResult
    /\ env = NoEnv

Next == Chat \/ Summarize \/ ExtractTags \/ AnalyzeSentiment \/ TransportAttempt
        \/ TransportWake \/ Finish

Spec == Init /\ [][Next]_vars

-----------------------------------------------------------------------------
(* A bare HttpClient whose post is called directly *)

\* http_client.py:17-20  HttpClient(session, timeout_s, max_retries)
InitPost ==
    /\ cfg = NoConfig
    /\ \E n \in 0..MaxRetries : http = [max_retries |-> n, timeout_s |-> DEFAULT_TIMEOUT_S]
    /\ pc = "idle"
    /\ op = NoOp
    /\ request = NoRequest
    /\ attempt = 1
    /\ delay = INITIAL_DELAY
    /\ last_err = NoErr
    /\ nposts = 0
    /\ sleeps = << >>
    /\ seen = {}
    /\ last = NoResp
    /\ post_out = NoOutcome
    /\ invoked = << >>
    /\ npostcalls = 0
    /\ out = NoResult
    /\ env = NoEnv

NextPost == PostCall \/ PostAttempt \/ PostWake

SpecPost == InitPost /\ [][NextPost]_vars

-----------------------------------------------------------------------------
(* The facade whose every post is answered at once with status 200: the     *)
(* adapters' request building and response parsing and the convenience      *)
(* methods' processing, applied to inputs drawn from bounded sets           *)

\* largest max_tags handed to extract_tags
MaxTagLimit == 3

TextType == <<"t", "e", "x", "t">>

\* a text of n characters, of period 3
Filler(n) == [i \in 1..n |-> IF i % 3 = 1 THEN "a" ELSE IF i % 3 = 2 THEN "b" ELSE "c"]

\* lengths around the two budgets of constants.py:34-35
TextLengths == {0, 3, 1000, 1001, 2000, 2001}
TagTextLengths == {3, 1000, 1001}

\* texts a model replies with
ReplyTexts ==
    { << >>,
      <<" ", "P", "O", "S", "I", "T", "I", "V", "E", "\n">>,
      <<" ", "N", "o", " ">>,
      <<"\f", " ", "N", "É", "G", "A", "T", "I", "F", " ">>,
      <<"a", "\n", "\n", " ", "b", " ", "\n", "c", "\n", " ", "\t", "\n", "d">> }

OpenAIReply(content) == JDict([choices |-> JList(<<JDict([message |-> JDict([content |-> content])])>>)])
AnthropicReply(blocks) == JDict([content |-> blocks])
OllamaReply(message) == JDict([message |-> message])

TextBlock(s) == JDict([type |-> JStr(TextType), text |-> JStr(s)])

\* parsed bodies the three providers answer with: well-formed replies and
\* every way a level of the expected structure can be missing or mistyped
AnswerBodies ==
    Bodies
    \cup { OpenAIReply(JStr(t)) : t \in ReplyTexts }
    \cup { OpenAIReply(JNull), OpenAIReply(JNum(5)),
           OpenAIReply(JFloat("finite", FALSE, << >>, 0)),
           JDict([choices |-> JDict([message |-> JStr(<<"x">>)])]),
           JDict([choices |-> JStr(<<"a", "b">>)]),
           JDict([choices |-> JNull]),
           JDict([choices |-> JList(<<JStr(<<"x">>)>>)]),
           JDict([choices |-> JList(<<JDict([index |-> JNum(0)])>>)]),
           JDict([choices |-> JList(<<JDict([message |-> JStr(<<"x">>)])>>)]),
           JDict([choices |-> JList(<<JDict([message |-> JNull])>>)]),
           JDict([choices |-> JList(<<JDict([message |-> JDict([role |-> JStr(<<"a">>)])])>>)]),
           JDict([choices |-> JList(<<JDict([message |-> JDict([content |-> JStr(<<"1">>)])]),
                                      JDict([message |-> JDict([content |-> JStr(<<"2">>)])])>>)]) }
    \cup { AnthropicReply(JList(<<TextBlock(t)>>)) : t \in ReplyTexts }
    \cup { AnthropicReply(JList(<< >>)), AnthropicReply(JNull),
           AnthropicReply(JDict([type |-> JStr(TextType), text |-> JStr(<<"a">>)])),
           AnthropicReply(JList(<<TextBlock(<<" ", "a">>),
                                  JDict([type |-> JStr(<<"t", "o", "o", "l">>), text |-> JStr(<<"T">>)]),
                                  JStr(<<"s">>),
                                  JDict([type |-> JStr(TextType)]),
                                  JDict([text |-> JStr(<<"U">>)]),
                                  TextBlock(<<"b", " ", "c", "\n">>)>>)),
           AnthropicReply(JList(<<TextBlock(<<"b">>), TextBlock(<<"a">>)>>)),
           AnthropicReply(JList(<<TextBlock(<<"a">>),
                                  JDict([type |-> JStr(TextType), text |-> JNum(5)])>>)),
           AnthropicReply(JList(<<JDict([type |-> JStr(TextType),
                                         text |-> JFloat("finite", FALSE, << >>, 0)])>>)) }
    \cup { OllamaReply(JDict([content |-> JStr(t)])) : t \in ReplyTexts }
    \cup { OllamaReply(JDict([content |-> JNum(5)])), OllamaReply(JDict([content |-> JNum(0)])),
           OllamaReply(JDict([content |-> JNull])),
           OllamaReply(JDict([content |-> JFloat("finite", TRUE, << >>, 0)])),
           OllamaReply(JDict([content |-> JFloat("finite", FALSE, <<1, 5>>, 0)])),
           OllamaReply(JDict([content |-> JFloat("nan", FALSE, << >>, 0)])),
           OllamaReply(JDict([content |-> JBool(FALSE)])),
           OllamaReply(JDict([content |-> JDict(<< >>)])),
           OllamaReply(JDict([content |-> JList(<<JStr(<<"a">>)>>)])),
           OllamaReply(JNull), OllamaReply(JList(<< >>)), OllamaReply(JNum(1)) }
    \cup { JNum(7), JFloat("finite", FALSE, <<1, 5>>, 0), JNull }

AnswerResponses == {[status |-> 200, net |-> FALSE, json |-> JsonOk(b)] : b \in AnswerBodies}

\* conversations handed to LLM.chat
WideChatInputs ==
    ChatInputs
    \cup { << >>,
           <<Msg("system", <<"S">>), Msg("user", <<"q">>), Msg("assistant", <<"r">>)>>,
           <<Msg("user", <<"q">>), Msg("system", <<"S">>)>>,
           <<Msg("system", << >>), Msg("system", <<"T">>), Msg("user", <<"q">>)>> }

\* client.py:42-59  LLM.chat
ChatOnce == \E ms \in WideChatInputs : StartOp("chat", << >>, ms, 0)

\* client.py:65-84  LLM.summarize, up to the post
SummarizeOnce ==
    \E n \in TextLengths, style \in Styles :
        StartOp("summarize", Filler(n), SummarizeMessages(Filler(n), style), 0)

\* client.py:87-109  LLM.extract_tags, up to the post
ExtractTagsOnce ==
    \E n \in TagTextLengths, max_tags \in 0..MaxTagLimit :
        StartOp("extract_tags", Filler(n), ExtractTagsMessages(Filler(n), max_tags), max_tags)

\* client.py:115-135  LLM.analyze_sentiment, up to the post
AnalyzeSentimentOnce ==
    \E n \in TextLengths :
        StartOp("analyze_sentiment", Filler(n), SentimentMessages(Filler(n)), 0)

\* http_client.py:22-35  the single attempt of a post that is answered
Answer == cfg.provider # "none" /\ PostStep(AnswerResponses)

\* configurations with the keys set and one attempt per post
AnswerConfigs == { MkConfig(p, JStr(<<"k">>), JStr(<<"k">>), mt, 1) :
                   p \in AdapterKeys, mt \in MaxTokensValues }

\* client.py:23-35  LLM(config)
InitAnswer ==
    /\ cfg \in AnswerConfigs
    /\ http = [max_retries |-> cfg.max_retries, timeout_s |-> cfg.timeout_s]
    /\ pc = "idle"
    /\ op = NoOp
    /\ request = NoRequest
    /\ attempt = 1
    /\ delay = INITIAL_DELAY
    /\ last_err = NoErr
    /\ nposts = 0
    /\ sleeps = << >>
    /\ seen = {}
    /\ last = NoResp
    /\ post_out = NoOutcome
    /\ invoked = << >>
    /\ npostcalls = 0
    /\ out = NoResult
    /\ env = NoEnv

NextAnswer == ChatOnce \/ SummarizeOnce \/ ExtractTagsOnce \/ AnalyzeSentimentOnce
              \/ Answer \/ Finish

SpecAnswer == InitAnswer /\ [][NextAnswer]_vars

-----------------------------------------------------------------------------
(* LLMConfig.from_env and LLM.from_env, shared/llm/config.py:51-96 and       *)
(* shared/llm/client.py:37-40: a facade built from the process environment  *)

DigitChars == <<"0", "1", "2", "3", "4", "5", "6", "7", "8", "9">>

IsDigit(c) == \E d \in 1..10 : DigitChars[d] = c
DigitVal(c) == (CHOOSE d \in 1..10 : DigitChars[d] = c) - 1
AllDigits(s) == s # << >> /\ \A i \in 1..Len(s) : IsDigit(s[i])

RECURSIVE DigitsVal(_, _)
DigitsVal(s, acc) ==
    IF s = << >> THEN acc ELSE DigitsVal(Tail(s), acc * 10 + DigitVal(Head(s)))

RECURSIVE Str(_)
\* str(n) for an int n >= 0
Str(n) == IF n < 10 THEN <<DigitChars[n + 1]>>
          ELSE Str(n \div 10) \o <<DigitChars[(n % 10) + 1]>>

\* str(x) for a float x >= 0 given in tenths: str(0.2) = "0.2"
StrTenths(t) == Str(t \div 10) \o <<".">> \o Str(t % 10)

Parsed(v) == [val |-> v, ok |-> TRUE]
NotParsed == [val |-> 0, ok |-> FALSE]

\* the text without its sign, and the sign
Unsigned(t) == IF t # << >> /\ Head(t) \in {"+", "-"} THEN Tail(t) ELSE t
Sign(t) == IF t # << >> /\ Head(t) = "-" THEN -1 ELSE 1

\* the characters int() and float() skip around a number, up to U+00FF: tab,
\* line feed, vertical tab, form feed, carriage return, space, U+0085 and the
\* no-break space; U+001C to U+001F are not skipped
NumericSpace == {"\t", "\n", "", "\f", "\r", " ", "", " "}

\* the least member of a set S of positions, and the greatest one of a set of
\* positions up to n; 0 for the empty set
FirstIn(S) == IF S = {} THEN 0 ELSE CHOOSE i \in S : \A j \in 1..(i - 1) : j \notin S
LastIn(S, n) == IF S = {} THEN 0 ELSE CHOOSE i \in S : \A j \in (i + 1)..n : j \notin S

\* the text of a number without the whitespace int() and float() skip at
\* its two ends
NumStrip(s) ==
    LET lo == FirstIn({i \in 1..Len(s) : s[i] \notin NumericSpace})
        hi == LastIn({i \in 1..Len(s) : s[i] \notin NumericSpace}, Len(s))
    IN IF lo = 0 THEN << >> ELSE SubSeq(s, lo, hi)

\* an underscore is accepted only between two digits
UnderscoresOk(s) ==
    \A i \in 1..Len(s) :
        s[i] = "_" => (i > 1 /\ i < Len(s) /\ IsDigit(s[i - 1]) /\ IsDigit(s[i + 1]))

\* the text without its underscores
DropUnderscores(s) == SelectSeq(s, LAMBDA c : c # "_")

\* int(s): whitespace around, a sign, then decimal digits with single
\* underscores between them; anything else raises ValueError. The value is
\* computed in TLC's integers: texts of at most nine digits.
ParseInt(s) ==
    LET t == NumStrip(s)
        u == Unsigned(t)
    IN IF UnderscoresOk(u) /\ AllDigits(DropUnderscores(u))
       THEN Parsed(Sign(t) * DigitsVal(DropUnderscores(u), 0))
       ELSE NotParsed

\* a text of digits without its leading zeros
DropLeadingZeros(s) ==
    LET lo == FirstIn({i \in 1..Len(s) : s[i] # "0"})
    IN IF lo = 0 THEN << >> ELSE SubSeq(s, lo, Len(s))

\* float() takes an exponent of more than nine significant digits as
\* MAX_ABS_EXP, and refuses a text of more than MAX_DIGITS digits, leading
\* zeros aside, or of more than MAX_DIGITS digits after the point
MAX_ABS_EXP == 1100000000
MAX_DIGITS == 1000000000

\* half of a number of decimal digits d, whole or not, and twice it, digit by
\* digit: the carry into a digit comes from its neighbour alone. The half has
\* no zero in front.
HalveDigits(d) ==
    SubSeq([i \in 1..Len(d) |-> ((IF i = 1 THEN 0 ELSE d[i - 1] % 2) * 10 + d[i]) \div 2],
           IF d[1] < 2 THEN 2 ELSE 1, Len(d))
DoubleDigits(d) ==
    << >> \o [i \in 1..Len(d) |-> (2 * d[i] + (IF i < Len(d) /\ d[i + 1] >= 5 THEN 1 ELSE 0)) % 10]

\* the double nearest to d1.d2...dk * 10^e10, ties to the even one: its 53
\* bits b1.b2...b53 and its binary exponent, b1 = 0 for a subnormal; no bits
\* for zero, and for infinity with the exponent 1024. Digits after the 800th
\* cannot change the rounding except by not being all zero. The bits are those
\* of the integer part, by halving it until nothing is left, then those of the
\* fraction, by doubling it, down to the 54th bit after the first 1 or to the
\* bit of weight 2^-1075. In an iteration of n steps the value of the first
\* half of the steps is the bound variable y of the second half.
ToBinary(digits, e10) ==
    LET \* the integer part and the fraction of sig[1].sig[2]... * 10^e10
        Parts(sig) ==
            <<IF e10 < 0 THEN << >>
              ELSE << >> \o [i \in 1..(e10 + 1) |-> IF i <= Len(sig) THEN sig[i] ELSE 0],
              IF e10 < 0
              THEN << >> \o [i \in 1..(Len(sig) - e10 - 1) |->
                               IF i < -e10 THEN 0 ELSE sig[i + e10 + 1]]
              ELSE SubSeq(sig, e10 + 2, Len(sig))>>
        \* the bits of the integer part: x is the number left and the bits so far
        RECURSIVE IntBits(_, _)
        IntBits(n, x) ==
            IF n = 0 \/ x[1] = << >> THEN x
            ELSE IF n = 1
            THEN <<HalveDigits(x[1]), <<x[1][Len(x[1])] % 2>> \o x[2]>>
            ELSE CHOOSE r \in {IntBits(n - n \div 2, y) : y \in {IntBits(n \div 2, x)}} : TRUE
        \* the bits of the fraction: x is the fraction left, the bits so far, those
        \* of the integer part included, and the place of the first 1 among them,
        \* 0 when there is none yet
        RECURSIVE FracBits(_, _)
        FracBits(n, x) ==
            IF n = 0 \/ x[1] = << >> \/ (x[3] > 0 /\ Len(x[2]) >= x[3] + 53) THEN x
            ELSE IF n = 1
            THEN <<SubSeq(DoubleDigits(x[1]), 1,
                          IF x[1][Len(x[1])] = 5 THEN Len(x[1]) - 1 ELSE Len(x[1])),
                   Append(x[2], IF x[1][1] >= 5 THEN 1 ELSE 0),
                   IF x[3] = 0 /\ x[1][1] >= 5 THEN Len(x[2]) + 1 ELSE x[3]>>
            ELSE CHOOSE r \in {FracBits(n - n \div 2, y) : y \in {FracBits(n \div 2, x)}} : TRUE
        \* the 53 bits w of the binade e, one more in the last place when up
        Carried(w, e, up) ==
            IF ~up THEN (IF \A k \in 1..53 : w[k] = 0 THEN <<<< >>, 0>> ELSE <<w, e>>)
            ELSE IF \A k \in 1..53 : w[k] = 1
            THEN (IF e = 1023 THEN <<<< >>, 1024>>
                  ELSE <<<< >> \o [k \in 1..53 |-> IF k = 1 THEN 1 ELSE 0], e + 1>>)
            ELSE <<<< >> \o [k \in 1..53 |->
                              IF \E j \in (k + 1)..53 : w[j] = 0 THEN w[k]
                              ELSE IF w[k] = 0 THEN 1 ELSE 0], e>>
        \* the 53 bits from the place first on, of the binade e, rounded: up when
        \* the next bit is 1 and the rest is not nothing or the last bit is 1
        Window(bits, first, rest, e) ==
            Carried(<< >> \o [k \in 1..53 |->
                               IF first + k - 1 <= Len(bits) THEN bits[first + k - 1] ELSE 0],
                    e,
                    /\ first + 53 <= Len(bits)
                    /\ bits[first + 53] = 1
                    /\ \/ rest # << >>
                       \/ \E i \in (first + 54)..Len(bits) : bits[i] = 1
                       \/ bits[first + 52] = 1)
        \* ib the bits of the integer part, x the bits with those of the fraction
        Rounded(ib, x) ==
            IF x[3] = 0 THEN <<<< >>, 0>>
            ELSE IF Len(ib) - x[3] > 1023 THEN <<<< >>, 1024>>
            ELSE IF Len(ib) - x[3] < -1022 THEN Window(x[2], Len(ib) + 1022, x[1], -1022)
            ELSE Window(x[2], x[3], x[1], Len(ib) - x[3])
        Fraction(frac, ib) ==
            Rounded(ib, FracBits(1075, <<frac, ib, IF ib = << >> THEN 0 ELSE 1>>))
        Whole(p) == Fraction(p[2], IntBits(4 * Len(p[1]), <<p[1], << >>>>)[2])
    IN IF e10 > 308 THEN <<<< >>, 1024>>
       ELSE IF e10 < -324 THEN <<<< >>, 0>>
       ELSE Whole(Parts(IF Len(digits) > 800 THEN SubSeq(digits, 1, 800) \o <<1>>
                        ELSE digits))

\* repr() of the double b1.b2...b53 * 2^e: the fewest digits d1.d2...dk * 10^e10
\* that float() reads back as that double, the nearest to it when there are
\* several
ShortestDigits(m, e) ==
    LET Twice(d) == IF d[1] >= 5 THEN <<1>> \o DoubleDigits(d) ELSE DoubleDigits(d)
        AddBit(d, b) == SubSeq(d, 1, Len(d) - 1) \o <<d[Len(d)] + b>>
        \* the 53 bits as a whole number: x is the number of bits taken and
        \* the digits of the number they make
        RECURSIVE Bits(_, _)
        Bits(n, x) ==
            IF n = 1
            THEN <<x[1] + 1, AddBit(Twice(x[2]), m[x[1] + 1])>>
            ELSE CHOOSE r \in {Bits(n - n \div 2, y) : y \in {Bits(n \div 2, x)}} : TRUE
        \* d times 2^n when e >= 52, d times 5^n otherwise
        RECURSIVE Scaled(_, _)
        Scaled(n, d) ==
            IF n = 0 THEN d
            ELSE IF n = 1
            THEN (IF e >= 52 THEN Twice(d) ELSE HalveDigits(d \o <<0>>))
            ELSE CHOOSE r \in {Scaled(n - n \div 2, y) : y \in {Scaled(n \div 2, d)}} : TRUE
        \* the digits x of the double and the power of ten of the first one
        Exact(all) == <<SubSeq(all, 1, LastIn({i \in 1..Len(all) : all[i] # 0}, Len(all))),
                        Len(all) - 1 - (IF e >= 52 THEN 0 ELSE 52 - e)>>
        \* the numbers of n digits next to x: below, and above
        Down(x, n) == <<SubSeq(x[1], 1, LastIn({i \in 1..n : x[1][i] # 0}, n)), x[2]>>
        Up(x, n, nine) ==
            IF nine = 0 THEN <<<<1>>, x[2] + 1>>
            ELSE <<<< >> \o [i \in 1..nine |-> IF i = nine THEN x[1][i] + 1 ELSE x[1][i]], x[2]>>
        \* of the two, those that are read back as the double
        Fit(x, n) == {c \in {Down(x, n), Up(x, n, LastIn({i \in 1..n : x[1][i] # 9}, n))} :
                         ToBinary(c[1], c[2]) = <<m, e>>}
        RECURSIVE Shortest(_, _)
        Nearest(x, n, fit) ==
            IF fit = {} THEN Shortest(x, n + 1)
            ELSE IF Cardinality(fit) = 1 THEN CHOOSE c \in fit : TRUE
            ELSE IF \/ x[1][n + 1] > 5
                    \/ x[1][n + 1] = 5 /\ (Len(x[1]) > n + 1 \/ x[1][n] % 2 = 1)
            THEN CHOOSE c \in fit : c # Down(x, n)
            ELSE Down(x, n)
        Shortest(x, n) == IF Len(x[1]) <= n THEN x ELSE Nearest(x, n, Fit(x, n))
    IN Shortest(Exact(Scaled(IF e >= 52 THEN e - 52 ELSE 52 - e, Bits(53, <<0, <<0>>>>)[2])), 1)

\* float() of d1.d2...dk * 10^e10, written as repr() writes it. A number of at
\* most 15 digits within the range of the normal doubles is its own repr():
\* no two such numbers are read as the same double.
RoundDecimal(neg, digits, e10) ==
    LET Finite(r) == JFloat("finite", neg, r[1], r[2])
        Written(b) == IF b[1] # << >> THEN Finite(ShortestDigits(b[1], b[2]))
                      ELSE JFloat(IF b[2] = 0 THEN "finite" ELSE "inf", neg, << >>, 0)
    IN IF Len(digits) <= 15 /\ e10 >= -307 /\ e10 <= 307 THEN JFloat("finite", neg, digits, e10)
       ELSE Written(ToBinary(digits, e10))

\* float(s) for a text that is not an infinity or a nan: digits with at most
\* one point and at least one digit, then an optional exponent marker with an
\* optional sign and at least one digit
ParseDecimal(neg, v) ==
    LET k == FirstIn({i \in 1..Len(v) : v[i] \in {"e", "E"}})
        mant == IF k = 0 THEN v ELSE SubSeq(v, 1, k - 1)
        ex == IF k = 0 THEN <<"0">> ELSE SubSeq(v, k + 1, Len(v))
        exdigits == DropLeadingZeros(Unsigned(ex))
        exval == IF Len(exdigits) > 9 THEN MAX_ABS_EXP ELSE DigitsVal(exdigits, 0)
        point == FirstIn({i \in 1..Len(mant) : mant[i] = "."})
        ip == IF point = 0 THEN mant ELSE SubSeq(mant, 1, point - 1)
        fp == IF point = 0 THEN << >> ELSE SubSeq(mant, point + 1, Len(mant))
        all == ip \o fp
        lead == DropLeadingZeros(all)
        sig == SubSeq(lead, 1, LastIn({i \in 1..Len(lead) : lead[i] # "0"}, Len(lead)))
    IN IF /\ all # << >>
          /\ \A i \in 1..Len(all) : IsDigit(all[i])
          /\ AllDigits(Unsigned(ex))
          /\ Len(lead) <= MAX_DIGITS /\ Len(fp) <= MAX_DIGITS
       THEN IF sig = << >> THEN Parsed(JFloat("finite", neg, << >>, 0))
            ELSE Parsed(RoundDecimal(neg, [i \in 1..Len(sig) |-> DigitVal(sig[i])],
                                     Len(ip) - 1 - (Len(all) - Len(lead)) + Sign(ex) * exval))
       ELSE NotParsed

\* float(s): whitespace around, a sign, then inf, infinity or nan in any
\* case, or a decimal number; underscores as for int(); anything else raises
\* ValueError
ParseFloat(s) ==
    LET t == NumStrip(s)
        u == Unsigned(t)
        v == DropUnderscores(u)
        w == Lower(v)
    IN IF ~UnderscoresOk(u) THEN NotParsed
       ELSE IF w \in {<<"i", "n", "f">>, <<"i", "n", "f", "i", "n", "i", "t", "y">>}
       THEN Parsed(JFloat("inf", Sign(t) = -1, << >>, 0))
       ELSE IF w = <<"n", "a", "n">> THEN Parsed(JFloat("nan", FALSE, << >>, 0))
       ELSE ParseDecimal(Sign(t) = -1, v)

\* mutant: the environment is not consulted
GetenvOr_Default(e, name, default) == default

\* os.getenv(name, default)
GetenvOr(e, name, default) == IF e[name] = JNull THEN default ELSE e[name].s

\* constants.py:10-11, 18-21
DEFAULT_PROVIDER == <<"o", "l", "l", "a", "m", "a">>
DEFAULT_MODEL == <<"llama3">>
OPENAI_BASE_URL == <<"https://api.openai.com">>
ANTHROPIC_BASE_URL == <<"https://api.anthropic.com">>
ANTHROPIC_VERSION == <<"2023-06-01">>
OLLAMA_BASE_URL == <<"http://localhost:11434">>

\* config.py:76  ("openai", "anthropic", "ollama")
SupportedProviders ==
    { <<"o", "p", "e", "n", "a", "i">>,
      <<"a", "n", "t", "h", "r", "o", "p", "i", "c">>,
      <<"o", "l", "l", "a", "m", "a">> }

\* the provider text as the name the adapters are keyed by
NameOf(s) ==
    CASE s = <<"o", "p", "e", "n", "a", "i">> -> "openai"
      [] s = <<"a", "n", "t", "h", "r", "o", "p", "i", "c">> -> "anthropic"
      [] s = <<"o", "l", "l", "a", "m", "a">> -> "ollama"
      [] s = <<"g", "e", "m", "i", "n", "i">> -> "gemini"
      [] s = << >> -> ""
      [] OTHER -> "other"

\* mutant: every provider text is accepted
ProviderSupported_Any(p) == TRUE

\* config.py:76  provider in ("openai", "anthropic", "ollama")
ProviderSupported(p) == p \in SupportedProviders

\* config.py:73-96  LLMConfig.from_env(): the config, or the ValueError
from_env(e) ==
    LET provider == Lower(GetenvOr(e, "LLM_PROVIDER", DEFAULT_PROVIDER))
        temperature == ParseFloat(GetenvOr(e, "LLM_TEMPERATURE", StrTenths(DEFAULT_TEMPERATURE)))
        max_tokens == IF Truthy(e["LLM_MAX_TOKENS"]) THEN ParseInt(e["LLM_MAX_TOKENS"].s)
                      ELSE Parsed(0)
        timeout_s == ParseInt(GetenvOr(e, "LLM_TIMEOUT_S", Str(DEFAULT_TIMEOUT_S)))
        max_retries == ParseInt(GetenvOr(e, "LLM_MAX_RETRIES", Str(DEFAULT_MAX_RETRIES)))
    IN IF ~ProviderSupported(provider)
       THEN Raised(ExcNamed("ValueError", "Unsupported provider", NameOf(provider)))
       ELSE IF ~temperature.ok
       THEN Raised(ExcNamed("ValueError", "could not convert string to float", "LLM_TEMPERATURE"))
       ELSE IF ~max_tokens.ok
       THEN Raised(ExcNamed("ValueError", "invalid literal for int()", "LLM_MAX_TOKENS"))
       ELSE IF ~timeout_s.ok
       THEN Raised(ExcNamed("ValueError", "invalid literal for int()", "LLM_TIMEOUT_S"))
       ELSE IF ~max_retries.ok
       THEN Raised(ExcNamed("ValueError", "invalid literal for int()", "LLM_MAX_RETRIES"))
       ELSE Returned(
         [provider |-> NameOf(provider),
          max_tokens |-> IF Truthy(e["LLM_MAX_TOKENS"]) THEN JNum(max_tokens.val) ELSE JNull,
          max_retries |-> max_retries.val,
          model |-> JStr(GetenvOr(e, "LLM_MODEL", DEFAULT_MODEL)),
          temperature |-> temperature.val,
          timeout_s |-> timeout_s.val,
          openai_api_key |-> e["OPENAI_API_KEY"],
          openai_base_url |-> GetenvOr(e, "OPENAI_BASE_URL", OPENAI_BASE_URL),
          anthropic_api_key |-> e["ANTHROPIC_API_KEY"],
          anthropic_api_url |-> GetenvOr(e, "ANTHROPIC_API_URL", ANTHROPIC_BASE_URL),
          anthropic_version |-> JStr(GetenvOr(e, "ANTHROPIC_VERSION", ANTHROPIC_VERSION)),
          ollama_base_url |-> GetenvOr(e, "OLLAMA_BASE_URL", OLLAMA_BASE_URL)])

\* client.py:37-40  LLM.from_env(): cls(LLMConfig.from_env())
FromEnv ==
    /\ pc = "unbuilt"
    /\ LET r == from_env(env) IN
       IF r.kind = "raise"
       THEN /\ out' = r
            /\ pc' = "failed"
            /\ UNCHANGED <<cfg, http>>
       ELSE /\ cfg' = r.val
            /\ http' = [max_retries |-> r.val.max_retries, timeout_s |-> r.val.timeout_s]
            /\ pc' = "idle"
            /\ UNCHANGED out
    /\ UNCHANGED <<env, op, request, invoked, npostcalls>>
    /\ UNCHANGED postLocals

\* an environment in which every variable is set
FullEnv ==
    [n \in EnvNames |->
       CASE n = "LLM_PROVIDER" -> JStr(<<"O", "p", "e", "n", "A", "I">>)
         [] n = "LLM_MODEL" -> JStr(<<"gpt-4">>)
         [] n = "LLM_TEMPERATURE" -> JStr(<<"0", ".", "7">>)
         [] n = "LLM_MAX_TOKENS" -> JStr(<<"2", "5", "6">>)
         [] n = "LLM_TIMEOUT_S" -> JStr(<<"3", "0">>)
         [] n = "LLM_MAX_RETRIES" -> JStr(<<"2">>)
         [] n = "OPENAI_API_KEY" -> JStr(<<"k">>)
         [] n = "OPENAI_BASE_URL" -> JStr(<<"http://o", "/">>)
         [] n = "ANTHROPIC_API_KEY" -> JStr(<<"k">>)
         [] n = "ANTHROPIC_API_URL" -> JStr(<<"http://a">>)
         [] n = "ANTHROPIC_VERSION" -> JStr(<<"2024-01-01">>)
         [] n = "OLLAMA_BASE_URL" -> JStr(<<"http://l">>)]

\* the values each variable is given
EnvValues(n) ==
    CASE n = "LLM_PROVIDER" ->
           { JNull, JStr(<< >>), JStr(<<"o", "p", "e", "n", "a", "i">>),
             JStr(<<"O", "p", "e", "n", "A", "I">>),
             JStr(<<"A", "N", "T", "H", "R", "O", "P", "I", "C">>),
             JStr(<<"O", "l", "l", "a", "m", "a">>),
             JStr(<<"g", "e", "m", "i", "n", "i">>),
             JStr(<<" ", "o", "p", "e", "n", "a", "i">>) }
      [] n = "LLM_MODEL" -> { JNull, JStr(<< >>), JStr(<<"gpt-4">>) }
      [] n = "LLM_TEMPERATURE" ->
           { JNull, JStr(<<"0", ".", "7">>), JStr(<<"1">>), JStr(<<"h", "o", "t">>),
             JStr(<<"0", ".", "7", "0">>), JStr(<<".", "5">>), JStr(<<"5", ".">>),
             JStr(<<"0", ".", "2", "5">>), JStr(<<"1", "e", "1">>), JStr(<<"1", "E", "-", "1">>),
             JStr(<<"1", "_", "0">>), JStr(<<"-", "0">>), JStr(<<"i", "n", "f">>),
             JStr(<<"-", "I", "n", "f", "i", "n", "i", "t", "y">>), JStr(<<"n", "a", "n">>),
             JStr(<<"1", "e", "9", "9", "9">>), JStr(<<"", "1", ".", "5">>),
             JStr(<<" ", "1", ".", "5", "">>), JStr(<<"1", ".", "_", "5">>),
             JStr(<<"1", "e">>), JStr(<<".">>),
             JStr(<<"0", ".", "0", "1", "e", "0", "0", "0", "0", "0", "0", "2">>),
             JStr(<<"1", "e", "-", "1", "2", "3", "4", "5", "6", "7", "8", "9", "0">>),
             JStr(<<"1", "e", "1", "0", "0", "0", "0", "0", "0">>),
             JStr(<<"0", ".", "7", "0", "0", "0", "0", "0", "0", "0", "0", "0", "0", "0", "0", "0", "0", "0", "1">>),
             JStr(<<"3", "e", "-", "3", "2", "4">>) }
      [] n = "LLM_MAX_TOKENS" ->
           { JNull, JStr(<< >>), JStr(<<"0">>), JStr(<<"2", "5", "6">>),
             JStr(<<"m", "a", "n", "y">>), JStr(<<"1", "_", "0">>), JStr(<<"", "5">>),
             JStr(<<" ">>), JStr(<<"1", ".", "0">>) }
      [] n = "LLM_TIMEOUT_S" ->
           { JNull, JStr(<<"3", "0">>), JStr(<<" ", "5", " ">>), JStr(<<"1", "_", "0">>),
             JStr(<<"5", "">>), JStr(<<" ", "5">>), JStr(<<"1", "_", "_", "0">>) }
      [] n = "LLM_MAX_RETRIES" ->
           { JNull, JStr(<<"0">>), JStr(<<"1">>), JStr(<<"2">>), JStr(<<"x">>),
             JStr(<<"0", "_", "2">>), JStr(<<"1", "_", "0">>), JStr(<<"+", "1">>), JStr(<<"", "2">>),
             JStr(<<"_", "2">>) }
      [] OTHER -> { JNull, JStr(<< >>), FullEnv[n] }

\* environments: nothing set, or everything set, with one variable varied
Envs == UNION { { [b EXCEPT ![n] = v] : b \in {NoEnv, FullEnv}, v \in EnvValues(n) } :
                n \in EnvNames }

\* the responses the transport of a client built from the environment gets
EnvResponses == {r \in FacadeResponses : ~r.net /\ r.status \in {200, 500}}

\* http_client.py:25-43  one iteration of the loop of post
EnvAttempt == cfg.provider # "none" /\ PostStep(EnvResponses)

\* the process before LLM.from_env() is called
InitEnv ==
    /\ env \in Envs
    /\ cfg = NoConfig
    /\ http = NoClient
    /\ pc = "unbuilt"
    /\ op = NoOp
    /\ request = NoRequest
    /\ attempt = 1
    /\ delay = INITIAL_DELAY
    /\ last_err = NoErr
    /\ nposts = 0
    /\ sleeps = << >>
    /\ seen = {}
    /\ last = NoResp
    /\ post_out = NoOutcome
    /\ invoked = << >>
    /\ npostcalls = 0
    /\ out = NoResult

NextEnv == FromEnv \/ Chat \/ EnvAttempt \/ TransportWake \/ Finish

SpecEnv == InitEnv /\ [][NextEnv]_vars

-----------------------------------------------------------------------------
(* Vocabulary of the claims about HttpClient.post *)

\* kinds of all the responses the current post has received
AllKinds == IF last = NoResp THEN {} ELSE seen \cup {RespKind(last)}

Is2xx(st) == 200 <= st /\ st <= 299
Is5xx(st) == 500 <= st /\ st <= 599
AuthRateStatuses == {401, 403, 429, 408}

\* the i-th term of 1, 2, 4, 8, 8, 8, ...
BackoffTerm(i) == IF i = 1 THEN 1 ELSE IF i = 2 THEN 2 ELSE IF i = 3 THEN 4 ELSE 8
BackoffPrefix(n) == [i \in 1..n |-> BackoffTerm(i)]

PostFinished == pc = "post_done" /\ http.max_retries >= 1

\* the latest attempt got a 2xx response whose body parses
LastIsValid2xx == last # NoResp /\ ~last.net /\ Is2xx(last.status) /\ last.json.exc = "none"

\* C1 (as claimed): when the server answers only 401, 403, 429 or 408, post
\* makes exactly 1 HTTP attempt and never sleeps, for every max_retries >= 1.
C1_NoRetryOnAuthOrRateLimit ==
    (http.max_retries >= 1 /\ last # NoResp
        /\ \A k \in AllKinds : ~k.net /\ k.status \in AuthRateStatuses)
    => (nposts = 1 /\ sleeps = << >> /\ pc = "post_done")

\* C2 (as claimed): a post that ends in failure because of a 401/403 raises
\* LLMAuthError, and because of a 429/408 raises LLMRateLimit.
C2_ErrorKeepsKind ==
    (PostFinished /\ last # NoResp /\ ~last.net /\ post_out.kind = "raise")
    => /\ last.status \in {401, 403} => post_out.err.cls = "LLMAuthError"
       /\ last.status \in {429, 408} => post_out.err.cls = "LLMRateLimit"

\* C3: with max_retries = N >= 1 and only 5xx responses, a finished post made
\* exactly N attempts and N-1 sleeps of 1, 2, 4, 8, 8, ... and raised the
\* LLMError that names the url, N attempts and the last server error.
C3_ExhaustedOn5xx ==
    (PostFinished /\ last # NoResp /\ \A k \in AllKinds : ~k.net /\ Is5xx(k.status))
    => /\ nposts = http.max_retries
       /\ sleeps = BackoffPrefix(http.max_retries - 1)
       /\ post_out = Raised(PostFailed(request.url, http.max_retries,
                                       Exc("LLMError", "server_error", last.status)))

C3_Witness ==
    /\ PostFinished /\ http.max_retries = 6
    /\ AllKinds = {[status |-> 500, net |-> FALSE, json |-> "ValueError"],
                   [status |-> 599, net |-> FALSE, json |-> "ValueError"]}
    /\ sleeps = <<1, 2, 4, 8, 8>>
    /\ post_out.err.attempts = 6

\* C4: a valid 2xx response on the first attempt ends the post at once: the
\* parsed body is returned as it is, after 1 attempt and 0 sleeps.
C4_SuccessFirstAttempt ==
    (http.max_retries >= 1 /\ seen = {} /\ LastIsValid2xx)
    => /\ pc = "post_done"
       /\ post_out = Returned(last.json.val)
       /\ nposts = 1
       /\ sleeps = << >>

C4_Witness ==
    /\ pc = "post_done" /\ seen = {} /\ last.status = 201 /\ http.max_retries = 3
    /\ post_out.kind = "return"
    /\ post_out.val = JDict([error |-> JStr(<<"x">>)])

\* C5: k retryable failures (5xx or network exception) followed by a valid 2xx
\* response: post returns that body after k+1 attempts and k sleeps of
\* 1, 2, 4, 8, 8, ..., and is finished (no further attempt).
C5_SuccessAfterRetries ==
    (http.max_retries >= 1 /\ LastIsValid2xx /\ \A k \in seen : k.net \/ Is5xx(k.status))
    => /\ pc = "post_done"
       /\ post_out = Returned(last.json.val)
       /\ nposts = Len(sleeps) + 1
       /\ nposts <= http.max_retries
       /\ sleeps = BackoffPrefix(nposts - 1)

C5_Witness ==
    /\ pc = "post_done" /\ LastIsValid2xx /\ post_out.kind = "return"
    /\ seen = {RespKind(NetFail), [status |-> 500, net |-> FALSE, json |-> "ValueError"]}
    /\ nposts = 5 /\ sleeps = <<1, 2, 4, 8>>
    /\ http.max_retries = 6

\* C6 (as claimed): a 2xx response whose body does not parse is handled like a
\* network exception: it never ends the post before max_retries attempts are
\* used, and then the post raises the LLMError stating the attempt count.
C6_BadBodyRetried ==
    (PostFinished /\ last # NoResp /\ ~last.net /\ Is2xx(last.status) /\ last.json.exc # "none")
    => /\ nposts = http.max_retries
       /\ post_out.kind = "raise"
       /\ post_out.err.cls = "LLMError"
       /\ post_out.err.attempts = http.max_retries

OtherNon2xx(st) == ~Is2xx(st) /\ st \notin AuthRateStatuses /\ ~Is5xx(st)
Other4xx(st) == 400 <= st /\ st <= 499 /\ st \notin AuthRateStatuses

\* C7 (as claimed): a response with any other non-2xx status (400, 404, 3xx)
\* is never returned as a success, and a post that met only such statuses
\* raises the generic LLMError after max_retries attempts (body-parsing
\* failures, the subject of C6, set aside).
C7_OtherStatusNeverSuccess ==
    (http.max_retries >= 1 /\ last # NoResp /\ ~last.net /\ OtherNon2xx(last.status))
    => /\ post_out.kind # "return"
       /\ (pc = "post_done" /\ post_out.err.what # "bad_json"
              /\ \A k \in AllKinds : ~k.net /\ OtherNon2xx(k.status))
            => /\ nposts = http.max_retries
               /\ post_out.err.cls = "LLMError"
               /\ post_out.err.what = "post_failed"

\* C7 (amended): a response with a 4xx status other than 401, 403, 408, 429 is
\* never returned as a success: the attempt fails with an HTTPError that the
\* retry loop catches, and a post that met only such statuses raises the
\* generic LLMError after max_retries attempts.
C7_Other4xxNeverSuccess ==
    (http.max_retries >= 1 /\ last # NoResp /\ ~last.net /\ Other4xx(last.status))
    => /\ post_out.kind # "return"
       /\ pc = "post" => (last_err = Exc("HTTPError", "http_error", last.status)
                          /\ attempt = nposts + 1 /\ attempt <= http.max_retries)
       /\ (pc = "post_done" /\ \A k \in AllKinds : ~k.net /\ Other4xx(k.status))
            => /\ nposts = http.max_retries
               /\ post_out = Raised(PostFailed(request.url, http.max_retries,
                                      Exc("HTTPError", "http_error", last.status)))

C7_Witness ==
    /\ pc = "post_done" /\ http.max_retries = 3 /\ nposts = 3
    /\ last.status = 404
    /\ seen = {[status |-> 400, net |-> FALSE, json |-> "ValueError"],
               [status |-> 404, net |-> FALSE, json |-> "ValueError"]}
    /\ post_out.err.what = "post_failed"

-----------------------------------------------------------------------------
(* Claims about the facade and the adapters *)

OpStarted == op.name # "none"
OpDone == pc = "done" /\ OpStarted

\* the key the adapter of provider p requires is absent or empty
KeyMissing(p) ==
    \/ p = "openai" /\ cfg.openai_api_key \in {JNull, JStr(<< >>)}
    \/ p = "anthropic" /\ cfg.anthropic_api_key \in {JNull, JStr(<< >>)}

\* C8: an operation invokes the adapter keyed by cfg.provider, exactly once and
\* no other one (also after a failure); a finished chat returns what that
\* adapter produced; with a provider that matches no adapter, no adapter and
\* no transport call is made and the LLMError names the provider.
C8_ExactlyTheConfiguredAdapter ==
    OpStarted =>
      /\ Len(invoked) <= 1
      /\ cfg.provider \in {"openai", "anthropic", "ollama"} => invoked = <<cfg.provider>>
      /\ cfg.provider \notin {"openai", "anthropic", "ollama"} =>
            /\ invoked = << >> /\ npostcalls = 0 /\ nposts = 0 /\ pc = "done"
            /\ out.kind = "raise" /\ out.err.cls = "LLMError"
            /\ out.err.what = "Unsupported provider" /\ out.err.name = cfg.provider
      /\ (pc = "done" /\ op.name = "chat" /\ post_out.kind = "return") =>
            out = AdapterResult(cfg.provider, cfg, post_out.val)
      /\ npostcalls <= 1

C8_Witness ==
    /\ OpDone /\ op.name = "chat" /\ cfg.provider = "anthropic"
    /\ invoked = <<"anthropic">> /\ npostcalls = 1 /\ nposts = 2
    /\ out.kind = "raise" /\ out.err.what = "post_failed"

\* C9: with the selected provider's API key absent or empty, the OpenAI and
\* Anthropic adapters fail with LLMAuthError "Missing <KEY_NAME>" and no
\* transport.post call or HTTP attempt is made; the Ollama adapter always
\* reaches transport.post, sends no credential headers, and never fails with
\* a "Missing" error.
C9_MissingKeyFailsBeforePost ==
    OpStarted =>
      /\ KeyMissing(cfg.provider) =>
            /\ pc = "done" /\ npostcalls = 0 /\ nposts = 0 /\ request = NoRequest
            /\ out.kind = "raise" /\ out.err.cls = "LLMAuthError" /\ out.err.what = "Missing"
            /\ out.err.name = (IF cfg.provider = "openai" THEN "OPENAI_API_KEY"
                               ELSE "ANTHROPIC_API_KEY")
      /\ cfg.provider = "ollama" =>
            /\ npostcalls = 1 /\ request.headers = JNull
            /\ request.url = <<"http://localhost:11434", "/api/chat">>
            /\ out.err.what # "Missing"

C9_Witness ==
    /\ OpDone /\ cfg.provider = "openai" /\ cfg.openai_api_key = JStr(<< >>)
    /\ cfg.anthropic_api_key = JStr(<<"k">>)
    /\ out.err.cls = "LLMAuthError" /\ out.err.name = "OPENAI_API_KEY" /\ nposts = 0

\* C10: a finished operation whose transport.post raised ends with that very
\* error; one whose adapter raised (missing key, non-object body, unexpected
\* shape) ends with the adapter's error; and an operation returns a value
\* only if the post returned and the adapter produced a result.
C10_ErrorsPropagateUnchanged ==
    OpDone =>
      /\ post_out.kind = "raise" => (out.kind = "raise" /\ out.err = post_out.err)
      /\ (invoked # << >> /\ npostcalls = 0) =>
            (out.kind = "raise" /\ out.err.cls = "LLMAuthError")
      /\ (post_out.kind = "return" /\ AdapterResult(invoked[1], cfg, post_out.val).kind = "raise") =>
            out = AdapterResult(invoked[1], cfg, post_out.val)
      /\ out.kind = "return" =>
            (post_out.kind = "return" /\ AdapterResult(invoked[1], cfg, post_out.val).kind = "return")

C10_Witness ==
    /\ OpDone /\ op.name = "extract_tags" /\ cfg.provider = "openai"
    /\ post_out.kind = "raise" /\ post_out.err.cls = "LLMError" /\ post_out.err.cause = "LLMRateLimit"
    /\ out.kind = "raise" /\ out.err.cls = "LLMError" /\ out.err.cause = "LLMRateLimit"

-----------------------------------------------------------------------------
(* Claims about the adapters' parsing and request building, and about the   *)
(* convenience methods, over the answered facade                            *)

ChatReturned == OpDone /\ op.name = "chat" /\ out.kind = "return"

\* C11: every LLMResult an adapter returns for a response that is a JSON
\* object has a text that is a string (possibly empty), never null and never
\* a value of another type.
C11_TextIsString ==
    ChatReturned => out.val.text.t = "str"

\* a chat of the adapter of provider p that got the JSON object post_out.val
ParsedBy(p) ==
    /\ OpDone /\ op.name = "chat" /\ cfg.provider = p
    /\ post_out.kind = "return" /\ IsDict(post_out.val)

\* the operation failed with a plain LLMError about the response's shape
FailedOnShape ==
    /\ out.kind = "raise" /\ out.val = JNull
    /\ out.err.cls = "LLMError" /\ out.err.what = "unexpected response format"

\* raw has a choices list whose first element is an object with a message
\* object that has a content key
OpenAIShape(raw) ==
    /\ HasKey(raw, "choices") /\ raw.f.choices.t = "list" /\ Len(raw.f.choices.items) >= 1
    /\ raw.f.choices.items[1].t = "dict" /\ HasKey(raw.f.choices.items[1], "message")
    /\ raw.f.choices.items[1].f.message.t = "dict"
    /\ HasKey(raw.f.choices.items[1].f.message, "content")

\* C12: OpenAIAdapter.chat returns choices[0].message.content as the text;
\* when choices is missing, not a list or empty, or its first element is not
\* an object with a message object that has a content key, the chat fails
\* with a plain LLMError and returns nothing.
C12_OpenAIParse ==
    ParsedBy("openai") =>
      IF OpenAIShape(post_out.val)
      THEN /\ out.kind = "return"
           /\ out.val.text = post_out.val.f.choices.items[1].f.message.f.content
      ELSE FailedOnShape /\ out.err.name = "OpenAI"

C12_Witness ==
    /\ ParsedBy("openai")
    /\ post_out.val = JDict([choices |-> JList(<<JDict([message |-> JStr(<<"x">>)])>>)])
    /\ FailedOnShape

\* the text a block contributes: its text when it is an object of type
\* "text" (nothing when it has no text key), nothing otherwise
BlockText(b) ==
    IF b.t = "dict" /\ HasKey(b, "type") /\ b.f.type = JStr(TextType) /\ HasKey(b, "text")
    THEN b.f.text.s ELSE << >>

RECURSIVE ConcatBlocks(_)
ConcatBlocks(blocks) ==
    IF blocks = << >> THEN << >>
    ELSE BlockText(Head(blocks)) \o ConcatBlocks(Tail(blocks))

\* every block of type "text" that has a text has a string as text
TextsAreStrings(blocks) ==
    \A i \in 1..Len(blocks) :
        (blocks[i].t = "dict" /\ HasKey(blocks[i], "type") /\ blocks[i].f.type = JStr(TextType)
         /\ HasKey(blocks[i], "text")) => blocks[i].f.text.t = "str"

\* C13: AnthropicAdapter.chat returns as text the texts of the blocks of type
\* "text" of the content list, concatenated in list order without separator
\* (other blocks skipped) and then trimmed; when content is absent or is not
\* a list the chat fails with a plain LLMError.
C13_AnthropicParse ==
    ParsedBy("anthropic") =>
      LET raw == post_out.val IN
      IF HasKey(raw, "content") /\ raw.f.content.t = "list"
      THEN TextsAreStrings(raw.f.content.items) =>
             /\ out.kind = "return"
             /\ out.val.text = JStr(Strip(ConcatBlocks(raw.f.content.items)))
      ELSE FailedOnShape /\ out.err.name = "Anthropic"

C13_Witness ==
    /\ ParsedBy("anthropic")
    /\ HasKey(post_out.val, "content") /\ post_out.val.f.content.t = "list"
    /\ Len(post_out.val.f.content.items) = 6
    /\ out.kind = "return" /\ out.val.text = JStr(<<"a", "b", " ", "c">>)

\* an operation of the Anthropic adapter that reached client.post
AnthropicSent == OpStarted /\ cfg.provider = "anthropic" /\ npostcalls = 1

\* positions of the system-role messages of the operation's conversation
SystemIdx == {i \in 1..Len(op.messages) : op.messages[i].role = "system"}
FirstSystem == CHOOSE i \in SystemIdx : \A j \in SystemIdx : i <= j

\* the payload's messages are the conversation without its first system
\* message, in order, each converted
MessagesExcludeFirstSystem ==
    LET ms == op.messages
        sent == request.json.f.messages.items
    IN IF SystemIdx = {} THEN sent = [j \in 1..Len(ms) |-> AnthropicMsg(ms[j])]
       ELSE sent = [j \in 1..(Len(ms) - 1) |->
                        AnthropicMsg(ms[IF j < FirstSystem THEN j ELSE j + 1])]

\* C14 as stated: the payload's messages exclude the first system-role
\* message, and the payload has a system field exactly when the conversation
\* has a system-role message, equal to the first one's content, whatever
\* that content is (the empty string included).
C14_SystemFieldIffSystemMessage ==
    AnthropicSent =>
      /\ MessagesExcludeFirstSystem
      /\ HasKey(request.json, "system") <=> SystemIdx # {}
      /\ SystemIdx # {} =>
            (/\ HasKey(request.json, "system")
             /\ request.json.f.system = JStr(op.messages[FirstSystem].content))

\* C14 amended: the payload's messages exclude the first system-role message,
\* and the payload has a system field exactly when that first system message
\* has a non-empty content, which the field then equals; a first system
\* message with empty content is dropped from the messages and sent nowhere.
C14_SystemFieldIffNonEmptySystem ==
    AnthropicSent =>
      /\ MessagesExcludeFirstSystem
      /\ HasKey(request.json, "system") <=>
            (SystemIdx # {} /\ op.messages[FirstSystem].content # << >>)
      /\ HasKey(request.json, "system") =>
            request.json.f.system = JStr(op.messages[FirstSystem].content)

C14_Witness ==
    /\ AnthropicSent /\ op.name = "chat"
    /\ op.messages = <<Msg("system", << >>), Msg("system", <<"T">>), Msg("user", <<"q">>)>>
    /\ ~HasKey(request.json, "system")
    /\ Len(request.json.f.messages.items) = 2

\* C15: OllamaAdapter.chat returns the text "" without error when the
\* response has no message key or its message is an object without a
\* content key, and fails with a plain LLMError when message is present but
\* is not an object.
C15_OllamaLenientParse ==
    ParsedBy("ollama") =>
      LET raw == post_out.val IN
      /\ ~HasKey(raw, "message") =>
            (out.kind = "return" /\ out.val.text = JStr(<< >>))
      /\ (HasKey(raw, "message") /\ raw.f.message.t = "dict"
          /\ ~HasKey(raw.f.message, "content")) =>
            (out.kind = "return" /\ out.val.text = JStr(<< >>))
      /\ (HasKey(raw, "message") /\ raw.f.message.t # "dict") =>
            (FailedOnShape /\ out.err.name = "Ollama")

C15_Witness ==
    /\ ParsedBy("ollama")
    /\ post_out.val = JDict([done |-> JNum(1)])
    /\ out.kind = "return" /\ out.val.text = JStr(<< >>)
    /\ out.val.usage = JDict([eval_count |-> JNull])

\* a convenience method finished after its chat returned a result whose
\* text is a string
ChatGaveText ==
    /\ OpDone /\ post_out.kind = "return"
    /\ AdapterResult(cfg.provider, cfg, post_out.val).kind = "return"
    /\ AdapterResult(cfg.provider, cfg, post_out.val).val.text.t = "str"

\* the text of the result chat returned
ChatText == AdapterResult(cfg.provider, cfg, post_out.val).val.text.s

RECURSIVE NonBlankTrimmed(_)
\* the lines that are non-empty after trimming, each trimmed, in order
NonBlankTrimmed(lines) ==
    IF lines = << >> THEN << >>
    ELSE (IF Strip(Head(lines)) # << >> THEN <<JStr(Strip(Head(lines)))>> ELSE << >>)
         \o NonBlankTrimmed(Tail(lines))

\* C16: for max_tags >= 0, extract_tags returns exactly the first
\* min(max_tags, k) of the k lines of the model's text that are non-empty
\* after trimming, each trimmed and in order: never more than max_tags
\* entries, no empty or untrimmed entry, blank lines not counted.
C16_ExtractTagsFirstNonBlank ==
    (ChatGaveText /\ op.name = "extract_tags") =>
      LET kept == NonBlankTrimmed(SplitLines(ChatText))
          n == Min(op.max_tags, Len(kept))
      IN /\ out.kind = "return" /\ out.val.t = "list"
         /\ out.val.items = SubSeq(kept, 1, n)
         /\ Len(out.val.items) <= op.max_tags
         /\ \A i \in 1..Len(out.val.items) :
               /\ out.val.items[i].s # << >>
               /\ Head(out.val.items[i].s) \notin Whitespace
               /\ out.val.items[i].s[Len(out.val.items[i].s)] \notin Whitespace

C16_Witness ==
    /\ ChatGaveText /\ op.name = "extract_tags" /\ op.max_tags = 3
    /\ Len(SplitLines(ChatText)) = 6
    /\ out.val = JList(<<JStr(<<"a">>), JStr(<<"b">>), JStr(<<"c">>)>>)

\* the content of the user message in the request handed to client.post
UserContentSent ==
    IF cfg.provider = "anthropic"
    THEN request.json.f.messages.items[1].f.content.items[1].f.text.s
    ELSE request.json.f.messages.items[2].f.content.s

\* C17: the user message summarize, analyze_sentiment and extract_tags send
\* is the prefix of the input text of length min(len(text), budget), the
\* budget being 2000 for summarize and analyze_sentiment and 1000 for
\* extract_tags: exactly budget characters for a longer input, the input
\* unchanged for a shorter one.
C17_InputCutToBudget ==
    (OpStarted /\ op.name \in {"summarize", "analyze_sentiment", "extract_tags"}) =>
      LET budget == IF op.name = "extract_tags" THEN 1000 ELSE 2000
          sent == op.messages[2].content
      IN /\ Len(op.messages) = 2 /\ op.messages[2].role = "user"
         /\ sent = SubSeq(op.text, 1, Min(Len(op.text), budget))
         /\ Len(op.text) > budget => Len(sent) = budget
         /\ Len(op.text) <= budget => sent = op.text
         /\ npostcalls = 1 /\ UserContentSent = sent

C17_Witness ==
    /\ OpDone /\ op.name = "extract_tags" /\ Len(op.text) = 1001
    /\ Len(UserContentSent) = 1000 /\ UserContentSent = SubSeq(op.text, 1, 1000)

\* C18: analyze_sentiment returns the model's text trimmed and lower-cased
\* and nothing else; an answer outside positive/negative/neutral is returned
\* as it is (trimmed, lower-cased), neither rejected nor mapped.
C18_SentimentTrimmedLowercased ==
    (ChatGaveText /\ op.name = "analyze_sentiment") =>
      out = Returned(JStr(Lower(Strip(ChatText))))

C18_Witness ==
    /\ ChatGaveText /\ op.name = "analyze_sentiment"
    /\ ChatText = <<" ", "N", "o", " ">>
    /\ out.kind = "return" /\ out.val = JStr(<<"n", "o">>)

-----------------------------------------------------------------------------
(* Claims about LLMConfig.from_env, over the facade built from the          *)
(* environment                                                               *)

\* from_env has run and produced a config and a client
Built == pc \notin {"unbuilt", "failed"}

Supplied(n) == env[n] # JNull

\* LLM_PROVIDER (or its default) in lower case
EnvProvider ==
    Lower(IF Supplied("LLM_PROVIDER") THEN env["LLM_PROVIDER"].s
          ELSE <<"o", "l", "l", "a", "m", "a">>)

ValidProviderTexts ==
    { <<"o", "p", "e", "n", "a", "i">>, <<"a", "n", "t", "h", "r", "o", "p", "i", "c">>,
      <<"o", "l", "l", "a", "m", "a">> }

\* C19: whenever LLM_PROVIDER, lower-cased, is not openai, anthropic or
\* ollama, from_env fails when the config is built, with no config and no
\* client; hence a client built from the environment never meets the
\* "Unsupported provider" failure of chat.
C19_InvalidProviderFailsAtBuild ==
    /\ (pc # "unbuilt" /\ EnvProvider \notin ValidProviderTexts) =>
          /\ pc = "failed" /\ cfg = NoConfig /\ http = NoClient
          /\ op = NoOp /\ npostcalls = 0 /\ nposts = 0
          /\ out.kind = "raise" /\ out.err.cls = "ValueError"
          /\ out.err.what = "Unsupported provider"
    /\ Built => cfg.provider \in {"openai", "anthropic", "ollama"}
    /\ OpStarted => ~(out.kind = "raise" /\ out.err.what = "Unsupported provider")

C19_Witness ==
    /\ pc = "failed" /\ env["LLM_PROVIDER"] = JStr(<<"g", "e", "m", "i", "n", "i">>)
    /\ env["OPENAI_API_KEY"] = JStr(<<"k">>)
    /\ cfg = NoConfig /\ out.err.cls = "ValueError" /\ out.err.name = "gemini"

\* the number a decimal text denotes (-1: none)
Denoted(s) ==
    CASE s = <<"0">> -> 0 [] s = <<"1">> -> 1 [] s = <<"2">> -> 2 [] s = <<"3">> -> 3
      [] s = <<"3", "0">> -> 30 [] s = <<" ", "5", " ">> -> 5 [] s = <<"6", "0">> -> 60
      [] s = <<"2", "5", "6">> -> 256 [] s = <<"1", "_", "0">> -> 10
      [] s = <<" ", "5">> -> 5 [] s = <<"0", "_", "2">> -> 2 [] s = <<"+", "1">> -> 1
      [] OTHER -> -1

\* no float: the text denotes none
NoFloat == JNull

\* d1.d2...dk * 10^e, positive
Real(digits, e) == [t |-> "float", form |-> "finite", neg |-> FALSE, digits |-> digits,
                    exp10 |-> e]

\* the float a text denotes (NoFloat: none)
FloatDenoted(s) ==
    CASE s = <<"0", ".", "7">> -> Real(<<7>>, -1)
      [] s = <<"0", ".", "7", "0">> -> Real(<<7>>, -1)
      [] s = <<"0", ".", "7", "0", "0", "0", "0", "0", "0", "0", "0", "0", "0", "0", "0", "0", "0", "0", "1">>
           -> Real(<<7>>, -1)
      [] s = <<"3", "e", "-", "3", "2", "4">> -> Real(<<5>>, -324)
      [] s = <<"1">> -> Real(<<1>>, 0)
      [] s = <<"0", ".", "2">> -> Real(<<2>>, -1)
      [] s = <<".", "5">> -> Real(<<5>>, -1)
      [] s = <<"5", ".">> -> Real(<<5>>, 0)
      [] s = <<"0", ".", "2", "5">> -> Real(<<2, 5>>, -1)
      [] s = <<"1", "e", "1">> -> Real(<<1>>, 1)
      [] s = <<"1", "E", "-", "1">> -> Real(<<1>>, -1)
      [] s = <<"1", "_", "0">> -> Real(<<1>>, 1)
      [] s = <<" ", "1", ".", "5", "">> -> Real(<<1, 5>>, 0)
      [] s = <<"-", "0">> ->
           [t |-> "float", form |-> "finite", neg |-> TRUE, digits |-> << >>, exp10 |-> 0]
      [] s = <<"i", "n", "f">> ->
           [t |-> "float", form |-> "inf", neg |-> FALSE, digits |-> << >>, exp10 |-> 0]
      [] s \in {<<"1", "e", "9", "9", "9">>, <<"1", "e", "1", "0", "0", "0", "0", "0", "0">>} ->
           [t |-> "float", form |-> "inf", neg |-> FALSE, digits |-> << >>, exp10 |-> 0]
      [] s = <<"0", ".", "0", "1", "e", "0", "0", "0", "0", "0", "0", "2">> -> Real(<<1>>, 0)
      [] s = <<"1", "e", "-", "1", "2", "3", "4", "5", "6", "7", "8", "9", "0">> ->
           [t |-> "float", form |-> "finite", neg |-> FALSE, digits |-> << >>, exp10 |-> 0]
      [] s = <<"-", "I", "n", "f", "i", "n", "i", "t", "y">> ->
           [t |-> "float", form |-> "inf", neg |-> TRUE, digits |-> << >>, exp10 |-> 0]
      [] s = <<"n", "a", "n">> ->
           [t |-> "float", form |-> "nan", neg |-> FALSE, digits |-> << >>, exp10 |-> 0]
      [] OTHER -> NoFloat

\* the fields that are read back as text: the value supplied, else the default
TextFieldsRoundTrip ==
    /\ cfg.model = JStr(IF Supplied("LLM_MODEL") THEN env["LLM_MODEL"].s ELSE <<"llama3">>)
    /\ cfg.openai_api_key = env["OPENAI_API_KEY"]
    /\ cfg.anthropic_api_key = env["ANTHROPIC_API_KEY"]
    /\ cfg.openai_base_url = (IF Supplied("OPENAI_BASE_URL") THEN env["OPENAI_BASE_URL"].s
                              ELSE <<"https://api.openai.com">>)
    /\ cfg.anthropic_api_url = (IF Supplied("ANTHROPIC_API_URL") THEN env["ANTHROPIC_API_URL"].s
                                ELSE <<"https://api.anthropic.com">>)
    /\ cfg.anthropic_version = JStr(IF Supplied("ANTHROPIC_VERSION")
                                    THEN env["ANTHROPIC_VERSION"].s ELSE <<"2023-06-01">>)
    /\ cfg.ollama_base_url = (IF Supplied("OLLAMA_BASE_URL") THEN env["OLLAMA_BASE_URL"].s
                              ELSE <<"http://localhost:11434">>)

\* the numeric fields other than max_tokens: the number supplied, else the default
NumberFieldsRoundTrip ==
    /\ cfg.temperature = (IF Supplied("LLM_TEMPERATURE")
                          THEN FloatDenoted(env["LLM_TEMPERATURE"].s) ELSE Real(<<2>>, -1))
    /\ cfg.timeout_s = (IF Supplied("LLM_TIMEOUT_S") THEN Denoted(env["LLM_TIMEOUT_S"].s) ELSE 60)
    /\ cfg.max_retries = (IF Supplied("LLM_MAX_RETRIES") THEN Denoted(env["LLM_MAX_RETRIES"].s)
                          ELSE 3)

\* max_tokens: the number supplied, absent when the variable is unset or empty
MaxTokensRoundTrip ==
    cfg.max_tokens = (IF Supplied("LLM_MAX_TOKENS") /\ env["LLM_MAX_TOKENS"].s # << >>
                      THEN JNum(Denoted(env["LLM_MAX_TOKENS"].s)) ELSE JNull)

\* C20 as stated: every field of a config built by from_env reads back as
\* exactly the value supplied for its variable (a numeric variable as the
\* number its text denotes), and as the documented default when the
\* variable is absent.
C20_RoundTripExact ==
    Built =>
      /\ cfg.provider = (IF Supplied("LLM_PROVIDER") THEN NameOf(env["LLM_PROVIDER"].s)
                         ELSE "ollama")
      /\ MaxTokensRoundTrip
      /\ TextFieldsRoundTrip
      /\ NumberFieldsRoundTrip

\* the environment's numeric variables all denote numbers
NumbersWellFormed ==
    /\ Supplied("LLM_TEMPERATURE") => FloatDenoted(env["LLM_TEMPERATURE"].s) # NoFloat
    /\ (Supplied("LLM_MAX_TOKENS") /\ env["LLM_MAX_TOKENS"].s # << >>) =>
          Denoted(env["LLM_MAX_TOKENS"].s) # -1
    /\ Supplied("LLM_TIMEOUT_S") => Denoted(env["LLM_TIMEOUT_S"].s) # -1
    /\ Supplied("LLM_MAX_RETRIES") => Denoted(env["LLM_MAX_RETRIES"].s) # -1

\* C20 amended: from_env builds a config whenever the provider, lower-cased,
\* is supported and the numeric variables denote numbers; every field then
\* reads back as the value supplied, with the provider in lower case, the
\* numeric variables as numbers and an empty LLM_MAX_TOKENS as absent, and
\* as the documented default when the variable is absent.
C20_RoundTripNormalised ==
    /\ (pc # "unbuilt" /\ EnvProvider \in ValidProviderTexts /\ NumbersWellFormed) => Built
    /\ Built =>
         /\ cfg.provider = NameOf(EnvProvider)
         /\ MaxTokensRoundTrip
         /\ TextFieldsRoundTrip
         /\ NumberFieldsRoundTrip

C20_Witness ==
    /\ Built /\ env = [FullEnv EXCEPT !["LLM_MAX_TOKENS"] = JStr(<< >>)]
    /\ cfg.provider = "openai" /\ cfg.max_tokens = JNull /\ cfg.timeout_s = 30
    /\ cfg.temperature = Real(<<7>>, -1) /\ http.max_retries = 2

\* C21: max_retries is at least 1 in every config and client that is
\* constructed, so every post makes at least one HTTP attempt and every post
\* that fails ends with an error of the LLMError kind (a body that does not
\* parse aside).
C21_MaxRetriesAtLeastOne ==
    /\ Built => (cfg.max_retries >= 1 /\ http.max_retries >= 1)
    /\ (pc \in {"post_done", "done"} /\ npostcalls = 1) => nposts >= 1
    /\ (post_out.kind = "raise" /\ post_out.err.what # "bad_json") =>
          IsInstance(post_out.err.cls, "LLMError")

\* C22: split_system_message returns the content of the first system-role
\* message (none when there is none) and the list of all other messages in
\* their order, later system-role messages included as they are; that list
\* has one entry less than the input when a system message exists, as many
\* otherwise; the input list is left as it was.
C22_SplitSystemMessage ==
    AnthropicSent =>
      LET ms == op.messages
          sp == split_system_message(ms)
          n == IF SystemIdx = {} THEN Len(ms) ELSE Len(ms) - 1
      IN /\ sp.system = (IF SystemIdx = {} THEN JNull ELSE JStr(ms[FirstSystem].content))
         /\ Len(sp.core) = n
         /\ \A j \in 1..n :
               sp.core[j] = ms[IF SystemIdx = {} \/ j < FirstSystem THEN j ELSE j + 1]
         /\ sp.messages = ms
         /\ Len(request.json.f.messages.items) = n

C22_Witness ==
    /\ AnthropicSent /\ op.name = "chat"
    /\ op.messages = <<Msg("system", <<"S">>), Msg("user", <<"q">>), Msg("system", <<"T">>),
                       Msg("assistant", <<"r">>)>>
    /\ split_system_message(op.messages).core[2] = Msg("system", <<"T">>)
    /\ Len(request.json.f.messages.items) = 3
    /\ request.json.f.system = JStr(<<"S">>)

\* the conversation without its first system-role message
CoreMessages ==
    IF SystemIdx = {} THEN op.messages
    ELSE [j \in 1..(Len(op.messages) - 1) |->
              op.messages[IF j < FirstSystem THEN j ELSE j + 1]]

\* C23: every message of the payload AnthropicAdapter.chat sends has role
\* user or assistant: the remaining messages are converted one to one in
\* order, user and assistant are kept, any other role (a second system message
\* included) becomes user, and each content becomes the one-element list
\* [{type: text, text: <original content>}].
C23_AnthropicMessagesConverted ==
    AnthropicSent =>
      LET sent == request.json.f.messages.items IN
      /\ Len(sent) = Len(CoreMessages)
      /\ \A i \in 1..Len(sent) :
            /\ sent[i].f.role \in {JStr(<<"user">>), JStr(<<"assistant">>)}
            /\ sent[i].f.role =
                   (IF CoreMessages[i].role \in {"user", "assistant"}
                    THEN JStr(<<CoreMessages[i].role>>) ELSE JStr(<<"user">>))
            /\ sent[i].f.content =
                   JList(<<JDict([type |-> JStr(TextType),
                                  text |-> JStr(CoreMessages[i].content)])>>)

C23_Witness ==
    /\ AnthropicSent /\ op.name = "chat"
    /\ Len(op.messages) = 4 /\ op.messages[3] = Msg("system", <<"T">>)
    /\ request.json.f.messages.items[2].f.role = JStr(<<"user">>)
    /\ request.json.f.messages.items[2].f.content.items[1].f.text = JStr(<<"T">>)
    /\ request.json.f.messages.items[3].f.role = JStr(<<"assistant">>)

\* C24: the max_tokens field of the Anthropic request body equals the
\* configured max_tokens whenever one is configured (0 included), and is 1024
\* only when max_tokens is absent.
C24_AnthropicMaxTokens ==
    AnthropicSent =>
      request.json.f.max_tokens =
          (IF cfg.max_tokens # JNull THEN cfg.max_tokens
           ELSE JNum(ANTHROPIC_DEFAULT_MAX_TOKENS))

\* the operation's request went to the OpenAI or the Ollama adapter
SentAsIs == OpStarted /\ npostcalls = 1 /\ cfg.provider \in {"openai", "ollama"}

\* C25: the OpenAI request body contains max_tokens, and the Ollama request
\* body contains options.num_predict, exactly when the configured max_tokens
\* is not absent, and then it is the configured value (0 included); both
\* adapters send the messages list as it is, all roles, in the original order.
C25_MaxTokensIffConfigured ==
    SentAsIs =>
      LET body == request.json
          holder == IF cfg.provider = "openai" THEN body ELSE body.f.options
          key == IF cfg.provider = "openai" THEN "max_tokens" ELSE "num_predict"
          ms == op.messages
      IN /\ HasKey(holder, key) <=> cfg.max_tokens # JNull
         /\ HasKey(holder, key) => Get(holder, key, JNull) = cfg.max_tokens
         /\ body.f.messages =
                JList([i \in 1..Len(ms) |->
                          JDict([content |-> JStr(ms[i].content), role |-> JStr(<<ms[i].role>>)])])

C25_Witness ==
    /\ SentAsIs /\ cfg.provider = "openai" /\ cfg.max_tokens = JNum(0)
    /\ HasKey(request.json, "max_tokens") /\ request.json.f.max_tokens = JNum(0)
    /\ Len(op.messages) = 4 /\ Len(request.json.f.messages.items) = 4
    /\ request.json.f.messages.items[3].f.role = JStr(<<"system">>)

\* C26: for each of the three adapters, when the transport returns a parsed
\* body that is not a JSON object (a list, a string, a number), chat fails
\* with a plain LLMError that names the provider and gives no result; when
\* the body is an object, the result's raw is that object, unmodified.
C26_NonObjectBodyRejected ==
    /\ (OpDone /\ post_out.kind = "return" /\ ~IsDict(post_out.val)) =>
          /\ out.kind = "raise" /\ out.val = JNull
          /\ out.err.cls = "LLMError" /\ out.err.what = "expected JSON object"
          /\ out.err.name = cfg.provider
    /\ ChatReturned => (IsDict(post_out.val) /\ out.val.raw = post_out.val)

C26_Witness ==
    /\ OpDone /\ op.name = "chat" /\ cfg.provider = "anthropic"
    /\ post_out.kind = "return" /\ post_out.val = JNum(7)
    /\ out.kind = "raise" /\ out.err.name = "anthropic"
    /\ out.err.what = "expected JSON object"

\* C27: each call of chat, summarize, extract_tags or analyze_sentiment
\* invokes transport.post at most once; that post makes between 1 and
\* config.max_retries HTTP attempts, one after another, and then ends with a
\* result or an error, whatever the responses and network failures; the
\* attempt count never exceeds max_retries.
C27_OnePostBoundedAttempts ==
    /\ npostcalls <= 1
    /\ OpStarted => nposts <= cfg.max_retries
    /\ (OpStarted /\ npostcalls = 1 /\ pc \in {"post_done", "done"}) =>
          /\ 1 <= nposts /\ nposts <= cfg.max_retries
          /\ post_out.kind \in {"return", "raise"}
    /\ pc = "post" => (attempt = nposts + 1 /\ attempt <= cfg.max_retries)
    /\ pc = "sleep" => (attempt = nposts /\ attempt < cfg.max_retries)

\* a step that enters the retry loop of a new post
PostBegins == pc \in {"idle", "done"} /\ pc' = "post"

\* C28: no retry state carries over between calls: whatever calls were made
\* and however they ended, the client's config and the transport's timeout_s
\* and max_retries stay as they were, and the next post starts at attempt 1
\* with delay 1.0, no last error, no attempt made and no sleep taken.
C28_NoCarryOver ==
    [][ /\ cfg' = cfg /\ http' = http
        /\ PostBegins => /\ attempt' = 1 /\ delay' = INITIAL_DELAY
                         /\ last_err' = NoErr /\ nposts' = 0 /\ sleeps' = << >>
                         /\ post_out' = NoOutcome ]_vars

\* a call that ended in failure after retrying, its loop variables still at
\* their last values, and a further call that can start from there
C28_Witness ==
    /\ OpDone /\ out.kind = "raise" /\ post_out.err.what = "post_failed"
    /\ attempt = 2 /\ delay = 2 /\ sleeps = <<INITIAL_DELAY>> /\ last_err # NoErr
    /\ http = [max_retries |-> cfg.max_retries, timeout_s |-> cfg.timeout_s]
    /\ ENABLED Chat

-----------------------------------------------------------------------------
(* Two callers on one HttpClient.  post keeps last_err, delay and attempt   *)
(* in locals (http_client.py:23-25), so in this specification every         *)
(* variable of a call is a function over the callers: pc[c], request[c],    *)
(* attempt[c], delay[c], last_err[c], nposts[c], sleeps[c], post_out[c],    *)
(* and seen[c] is the sequence of responses call c has received.  The       *)
(* client's own fields, http, are shared.  A caller's iteration is two      *)
(* steps, the attempt up to the start of time.sleep and the return of the   *)
(* sleep, so the other caller can run while this one waits; a step reads    *)
(* self.session, self.timeout_s, self.max_retries and writes only locals.   *)

\* the threads that call post on the same client
Callers == {1, 2}

\* the responses the shared session answers with: a success, two failures
\* that are retried, and a body that does not parse
ConcResponses ==
    { [status |-> 200, net |-> FALSE, json |-> JsonOk(JDict([done |-> JNum(1)]))],
      [status |-> 500, net |-> FALSE, json |-> JsonBad("ValueError")],
      [status |-> 429, net |-> FALSE, json |-> JsonBad("ValueError")],
      [status |-> 200, net |-> FALSE, json |-> JsonBad("ValueError")] }

\* the url caller c posts to
CallerUrl(c) == IF c = 1 THEN <<"u1">> ELSE <<"u2">>

\* mutant: the delay is kept in one place for all callers
OwnDelay_Shared(c) == delay[1]

\* http_client.py:24  `delay` is a local of the call
OwnDelay(c) == delay[c]

\* lines 23-25 (and 42-43 when the loop body never runs): caller c enters post
CallerPost(c) ==
    /\ pc[c] \in {"idle", "post_done"}
    /\ request' = [request EXCEPT ![c] = [url |-> CallerUrl(c), json |-> JNull, headers |-> JNull]]
    /\ attempt' = [attempt EXCEPT ![c] = 1]
    /\ delay' = [delay EXCEPT ![c] = INITIAL_DELAY]
    /\ last_err' = [last_err EXCEPT ![c] = NoErr]
    /\ nposts' = [nposts EXCEPT ![c] = 0]
    /\ sleeps' = [sleeps EXCEPT ![c] = << >>]
    /\ seen' = [seen EXCEPT ![c] = << >>]
    /\ IF http.max_retries >= 1
       THEN /\ pc' = [pc EXCEPT ![c] = "post"]
            /\ post_out' = [post_out EXCEPT ![c] = NoOutcome]
       ELSE /\ pc' = [pc EXCEPT ![c] = "post_done"]
            /\ post_out' = [post_out EXCEPT ![c] = Raised(Exc("AssertionError", "assert", -1))]
    /\ UNCHANGED <<cfg, http, op, last, invoked, npostcalls, out, env>>

\* lines 25-40 and 42-43: one iteration of caller c's loop up to the wait
CallerAttempt(c) ==
    /\ pc[c] = "post"
    /\ \E resp \in ConcResponses :
        LET r == TryBody(resp) IN
        /\ nposts' = [nposts EXCEPT ![c] = @ + 1]
        /\ seen' = [seen EXCEPT ![c] = Append(@, resp)]
        /\ IF r.kind = "return" \/ ~Caught(r.err)
           THEN /\ post_out' = [post_out EXCEPT ![c] = r]
                /\ pc' = [pc EXCEPT ![c] = "post_done"]
                /\ UNCHANGED <<attempt, delay, last_err, sleeps>>
           ELSE /\ last_err' = [last_err EXCEPT ![c] = r.err]
                /\ IF attempt[c] = http.max_retries
                   THEN /\ post_out' = [post_out EXCEPT ![c] =
                                Raised(PostFailed(request[c].url, http.max_retries, r.err))]
                        /\ pc' = [pc EXCEPT ![c] = "post_done"]
                        /\ UNCHANGED <<attempt, delay, sleeps>>
                   ELSE /\ sleeps' = [sleeps EXCEPT ![c] = Append(@, OwnDelay(c))]
                        /\ pc' = [pc EXCEPT ![c] = "sleep"]
                        /\ UNCHANGED <<attempt, delay, post_out>>
    /\ UNCHANGED <<cfg, http, op, request, last, invoked, npostcalls, out, env>>

\* lines 40-41 and 25: caller c's time.sleep(delay) returns
CallerWake(c) ==
    /\ pc[c] = "sleep"
    /\ delay' = [delay EXCEPT ![c] = NextDelay(OwnDelay(c))]
    /\ attempt' = [attempt EXCEPT ![c] = @ + 1]
    /\ pc' = [pc EXCEPT ![c] = "post"]
    /\ UNCHANGED <<cfg, http, op, request, last_err, nposts, sleeps, seen, last, post_out,
                   invoked, npostcalls, out, env>>

ConcurrentPost == \E c \in Callers : CallerPost(c)

ConcurrentAttempt == \E c \in Callers : CallerAttempt(c)

ConcurrentWake == \E c \in Callers : CallerWake(c)

\* HttpClient(max_retries=n), no post running
InitTwo ==
    /\ cfg = NoConfig
    /\ \E n \in 0..MaxConcRetries : http = [max_retries |-> n, timeout_s |-> DEFAULT_TIMEOUT_S]
    /\ pc = [c \in Callers |-> "idle"]
    /\ op = NoOp
    /\ request = [c \in Callers |-> NoRequest]
    /\ attempt = [c \in Callers |-> 1]
    /\ delay = [c \in Callers |-> INITIAL_DELAY]
    /\ last_err = [c \in Callers |-> NoErr]
    /\ nposts = [c \in Callers |-> 0]
    /\ sleeps = [c \in Callers |-> << >>]
    /\ seen = [c \in Callers |-> << >>]
    /\ last = NoResp
    /\ post_out = [c \in Callers |-> NoOutcome]
    /\ invoked = << >>
    /\ npostcalls = 0
    /\ out = NoResult
    /\ env = NoEnv

NextTwo == ConcurrentPost \/ ConcurrentAttempt \/ ConcurrentWake

SpecTwo == InitTwo /\ [][NextTwo]_vars

\* the i-th sleep of a call: 1, 2, 4, 8, 8, ...
RECURSIVE Backoff(_)
Backoff(i) == IF i = 1 THEN INITIAL_DELAY ELSE Min(2 * Backoff(i - 1), BACKOFF_CAP)

\* what a call that received the responses h, alone on a client with
\* max_retries n, ends with
Alone(url, h, n) ==
    IF h = << >> THEN Raised(Exc("AssertionError", "assert", -1))
    ELSE LET r == TryBody(h[Len(h)]) IN
         IF r.kind = "return" \/ ~Caught(r.err) THEN r
         ELSE Raised(PostFailed(url, n, r.err))

\* C29: when two callers run post concurrently on the same client, each call
\* keeps its own attempt counter, backoff delay and last error: under every
\* interleaving, the other call running while this one waits in its sleep
\* included, each call makes at most max_retries attempts, sleeps its own
\* 1, 2, 4, 8 sequence, and ends as it would have ended alone on the
\* responses to its own attempts.
C29_CallersIndependent ==
    \A c \in Callers :
      /\ nposts[c] <= http.max_retries /\ nposts[c] = Len(seen[c])
      /\ Len(sleeps[c]) = (IF pc[c] = "sleep" THEN attempt[c] ELSE attempt[c] - 1)
      /\ \A i \in 1..Len(sleeps[c]) : sleeps[c][i] = Backoff(i)
      /\ delay[c] = Backoff(attempt[c])
      /\ (pc[c] \in {"post", "sleep"} /\ nposts[c] >= 1) =>
            last_err[c] = TryBody(seen[c][nposts[c]]).err
      /\ pc[c] = "post_done" =>
            post_out[c] = Alone(CallerUrl(c), seen[c], http.max_retries)

C29_Witness ==
    /\ pc[1] = "sleep" /\ sleeps[1] = <<1, 2, 4, 8>> /\ attempt[1] = 4 /\ delay[1] = 8
    /\ last_err[1].cls = "LLMRateLimit"
    /\ pc[2] = "post_done" /\ sleeps[2] = <<1>> /\ last_err[2].cls = "LLMError"
    /\ post_out[2].kind = "return"

\* C30: in every successful adapter result, provider is the adapter's own
\* provider name and model is config.model; usage is the response's usage
\* object unmodified (none when the response has none) for the OpenAI and
\* Anthropic adapters, and for the Ollama adapter always an object
\* {eval_count: <the response's eval_count, or none>}.
C30_ResultMetadata ==
    ChatReturned =>
      LET raw == post_out.val IN
      /\ out.val.provider = cfg.provider /\ out.val.provider = invoked[1]
      /\ out.val.model = cfg.model
      /\ cfg.provider \in {"openai", "anthropic"} =>
            out.val.usage = (IF HasKey(raw, "usage") THEN raw.f.usage ELSE JNull)
      /\ cfg.provider = "ollama" =>
            out.val.usage =
                JDict([eval_count |-> IF HasKey(raw, "eval_count") THEN raw.f.eval_count
                                      ELSE JNull])

C30_Witness ==
    /\ ChatReturned /\ cfg.provider = "ollama"
    /\ HasKey(post_out.val, "eval_count") /\ post_out.val.f.eval_count = JNum(5)
    /\ out.val.usage = JDict([eval_count |-> JNum(5)])
    /\ out.val.provider = "ollama" /\ out.val.model = JStr(<<"llama3">>)

====
